---- MODULE Spec2Model ----
(***************************************************************************)
(* Windowed feature extraction for construction-site risk detection.       *)
(*                                                                         *)
(* The module models the sliding-window generator, the stateful feature    *)
(* extractors (EPI compliance, activity stability, activity transition)    *)
(* and the orchestrating pipeline of feature_extraction2.                  *)
(*                                                                         *)
(* Conventions                                                             *)
(*  - time is counted in whole seconds (datetime / timedelta values);      *)
(*  - a float is a fixed-point integer counted in 1/Scale units, so that   *)
(*    0.5 is Scale \div 2 and 1.0 is Scale;                                *)
(*  - a DataFrame is the sequence of its rows, in row order;               *)
(*  - None (a Python None / a missing cell) is the string "None".          *)
(***************************************************************************)
EXTENDS Integers, Sequences, FiniteSets, TLC

VARIABLES
    \* ---- SlidingWindow instance and the state of one generate() call ----
    window_duration,    \* SlidingWindow.window_duration (seconds)
    step,               \* SlidingWindow.step (seconds)
    start_time,         \* argument of generate
    end_time,           \* argument of generate
    df_all,             \* the bulk load returned by get_detections
    current_start,      \* local of generate
    gen_pc,             \* position of the generator
    yielded,            \* the windows yielded so far, in order
    \* ---- EPIFeatures instance ----
    epi,                \* window_duration, persistent_threshold,
                        \* _consecutive_violation_count
    epi_out,            \* the row returned by the last extract call
    epi_log,            \* per extract call: what it saw and what it returned
    epi_lone,           \* the EPIs for which the window of the last extract
                        \* call shows a track with a lone non-compliance indicator
    \* ---- ActivityStabilityFeatures instance ----
    stab,               \* history_size and the three deques
    stab_log,           \* per extract call: the values read and the row returned
    \* ---- ActivityTransitionFeatures instance ----
    trans,              \* history_size and the three deques
    trans_log,          \* per extract call: the values read and the row returned
    \* ---- one call of extract_features_pipeline ----
    cfg,                \* max_windows and which inter-window extractors are passed
    pipe_pc,            \* position in extract_features_pipeline
    i,                  \* the index enumerate gives to the next window
    all_rows,           \* local all_rows
    previous_rows,      \* local previous_rows
    calls,              \* the extract calls made so far: extractor, window index
    df_all_features,    \* first returned table
    df_ml_features,     \* second returned table
    runs,               \* per finished call: how it ended, its rows and the
                        \* extractor instances as it left them
    \* ---- ZoneFeatures instance ----
    zone,               \* zones, H, window_duration and the two memories
    zone_call,          \* the last extract call: its window, the instance
                        \* before it and the row returned
    zone_total,         \* the number of extract calls and the sum of the
                        \* zone_entry_exit_events they returned
    \* ---- HumanPresenceFeatures instance ----
    human,              \* image_area, stationary_threshold
    human_call,         \* the last extract call: its window and the row returned
    \* ---- the static spatial primitives ----
    hom_call,           \* the last apply_homography call: arguments and result
    poly_call,          \* the last point_in_polygon call: arguments and result
    \* ---- one ProximityFeatures instance ----
    prox,               \* the instance: window_duration and the two thresholds
    prox_call,          \* the last extract call: its window and the row returned
    \* ---- one Tracker instance fed by run_video ----
    tracker,            \* the instance: next_id, tracks, max_distance, max_age
    frame_idx,          \* run_video's index of the frame being processed
    frame_ids,          \* the ids returned for the detections of that frame
    issued,             \* the greatest id returned so far, 0 before any call
    track_call          \* the last track call: arguments, id and next_id before

genVars == <<window_duration, step, start_time, end_time, df_all,
             current_start, gen_pc, yielded>>

epiVars == <<epi, epi_out, epi_log, epi_lone>>

stabVars == <<stab, stab_log>>

transVars == <<trans, trans_log>>

pipeVars == <<cfg, pipe_pc, i, all_rows, previous_rows, calls,
              df_all_features, df_ml_features, runs>>

zoneVars == <<zone, zone_call, zone_total>>

humanVars == <<human, human_call>>

homVars == <<hom_call>>

polyVars == <<poly_call>>

proxVars == <<prox, prox_call>>

trackVars == <<tracker, frame_idx, frame_ids, issued, track_call>>

vars == <<genVars, epiVars, stabVars, transVars, pipeVars, zoneVars,
          humanVars, homVars, polyVars, proxVars, trackVars>>

----------------------------------------------------------------------------
(* Bounds of the model *)
MaxTime == 4        \* timestamps and time arguments range over 0..MaxTime
MaxDuration == 2    \* window_duration ranges over 1..MaxDuration
MaxStep == 2        \* step ranges over 1..MaxStep
MaxRows == 2        \* number of rows of a bulk load in the generator runs
MaxThreshold == 3   \* persistent_threshold ranges over 1..MaxThreshold
MaxEpiRows == 3     \* number of rows of a window handed to EPIFeatures.extract
MaxEpiCalls == 4    \* number of EPIFeatures.extract calls on one instance
MaxHistory == 3     \* history_size ranges over 1..MaxHistory
MaxStabCalls == 4   \* number of extract calls on one inter-window extractor
MaxWindowsArg == 2  \* max_windows is None or ranges over 0..MaxWindowsArg
MaxHumanRows == 3   \* number of rows of a window handed to HumanPresenceFeatures
MaxRuns == 2        \* number of extract_features_pipeline calls on the same instances
MaxZoneRows == 2    \* number of rows of a window handed to ZoneFeatures.extract
MaxZoneCalls == 2   \* number of ZoneFeatures.extract calls on one instance
MaxProxRows == 3    \* number of rows of a window handed to ProximityFeatures.extract
MaxFrame == 3       \* run_video's frame index ranges over 0..MaxFrame
MaxFrameDetections == 2  \* number of accepted detections of one frame

Scale == 10 * 100   \* fixed-point unit: 1.0 is Scale

None == "None"

----------------------------------------------------------------------------
(* Detections *)

Det(ts, cls, tid, x, y, w, h) ==
    [timestamp |-> ts, object_class |-> cls, track_id |-> tid,
     camera_id |-> 1,
     bbox_x |-> x, bbox_y |-> y, bbox_w |-> w, bbox_h |-> h]

\* sequences over S of length 0..n
RECURSIVE SeqsUpTo(_, _)
SeqsUpTo(S, n) ==
    IF n = 0 THEN {<<>>}
    ELSE LET shorter == SeqsUpTo(S, n - 1)
         IN  shorter \cup {Append(s, e) : s \in {t \in shorter : Len(t) = n - 1}, e \in S}

\* the bulk loads of the generator runs: one person seen at any timestamps
WindowTables == SeqsUpTo({Det(t, "person", 1, 0, 0, 1, 1) : t \in 0..MaxTime}, MaxRows)

----------------------------------------------------------------------------
(* SlidingWindow.generate *)

\* the mask of one window: start <= timestamp < end
InWindowClosedUpper(d, ws, we) == d.timestamp >= ws /\ d.timestamp <= we
InWindow(d, ws, we) == d.timestamp >= ws /\ d.timestamp < we

\* df_all.loc[mask]
WindowSlice(df, ws, we) == SelectSeq(df, LAMBDA d : InWindow(d, ws, we))

\* the loop condition of generate
HasNextWindowStrict == current_start + window_duration < end_time
HasNextWindow == current_start + window_duration <= end_time

\* generate is entered: the bulk load, the early return on an empty load
Generate_Load ==
    /\ gen_pc = "start"
    /\ IF df_all = <<>>
       THEN gen_pc' = "done"
       ELSE gen_pc' = "loop"
    /\ current_start' = start_time
    /\ UNCHANGED <<window_duration, step, start_time, end_time, df_all, yielded>>

\* one iteration of the while loop: yield the slice, advance by step
Generate_Yield ==
    /\ gen_pc = "loop"
    /\ HasNextWindow
    /\ yielded' = Append(yielded,
                    [start |-> current_start,
                     rows  |-> WindowSlice(df_all, current_start,
                                           current_start + window_duration)])
    /\ current_start' = current_start + step
    /\ UNCHANGED <<window_duration, step, start_time, end_time, df_all, gen_pc>>

\* the loop condition fails: the generator is exhausted
Generate_End ==
    /\ gen_pc = "loop"
    /\ ~HasNextWindow
    /\ gen_pc' = "done"
    /\ UNCHANGED <<window_duration, step, start_time, end_time, df_all,
                   current_start, yielded>>

InitGen(tables) ==
    /\ window_duration \in 1..MaxDuration
    /\ step \in 1..MaxStep
    /\ start_time \in 0..1
    /\ end_time \in 0..MaxTime
    /\ df_all \in tables
    /\ current_start = 0
    /\ gen_pc = "start"
    /\ yielded = <<>>


----------------------------------------------------------------------------
(* Claims on the window generator *)

\* number of rows of df whose timestamp lies in [ws, we)
RECURSIVE CountIn(_, _, _)
CountIn(df, ws, we) ==
    IF df = <<>> THEN 0
    ELSE (IF ws <= Head(df).timestamp /\ Head(df).timestamp < we THEN 1 ELSE 0)
         + CountIn(Tail(df), ws, we)

\* s is a subsequence of t
RECURSIVE IsSubSeq(_, _)
IsSubSeq(s, t) ==
    IF s = <<>> THEN TRUE
    ELSE IF t = <<>> THEN FALSE
    ELSE IF Head(s) = Head(t) THEN IsSubSeq(Tail(s), Tail(t))
    ELSE IsSubSeq(s, Tail(t))

\* C1: the k-th yielded window starts at start_time + k*step, holds only
\* detections with start <= timestamp < start + window_duration, and holds
\* every loaded detection of that interval (nothing dropped, nothing added).
C1_WindowHoldsExactlyItsInterval ==
    \A k \in 1..Len(yielded) :
        LET w  == yielded[k]
            ws == start_time + (k - 1) * step
        IN  /\ w.start = ws
            /\ \A j \in 1..Len(w.rows) :
                   /\ ws <= w.rows[j].timestamp
                   /\ w.rows[j].timestamp < ws + window_duration
            /\ IsSubSeq(w.rows, df_all)
            /\ Len(w.rows) = CountIn(df_all, ws, ws + window_duration)

\* a window was yielded that holds a detection while the load also holds a
\* detection at the window's exclusive upper bound, which it leaves out
C1_Witness ==
    \E k \in 1..Len(yielded) :
        /\ Len(yielded[k].rows) > 0
        /\ \E j \in 1..Len(df_all) :
               df_all[j].timestamp = yielded[k].start + window_duration

\* the number of k >= 0 with start_time + k*step + window_duration <= end_time
NumWindows ==
    Cardinality({k \in 0..MaxTime + 1 :
                    start_time + k * step + window_duration <= end_time})

\* C2: generate yields nothing on an empty load, otherwise exactly one window
\* per k with start_time + k*step + window_duration <= end_time, in strictly
\* increasing start order, empty windows included.
C2_WindowCount ==
    /\ Len(yielded) <= NumWindows
    /\ \A k \in 1..Len(yielded) : yielded[k].start = start_time + (k - 1) * step
    /\ \A k \in 2..Len(yielded) : yielded[k - 1].start < yielded[k].start
    /\ gen_pc = "done" =>
          IF df_all = <<>> THEN yielded = <<>> ELSE Len(yielded) = NumWindows

\* a finished run over a non-empty load that yielded several windows, one of
\* them without any detection
C2_Witness ==
    /\ gen_pc = "done"
    /\ df_all # <<>>
    /\ Len(yielded) >= 2
    /\ \E k \in 1..Len(yielded) : yielded[k].rows = <<>>

----------------------------------------------------------------------------
(* EPIFeatures *)

EpiClasses == {"hardhat", "no_hardhat", "safety_vest", "no_safety_vest",
               "mask", "no_mask"}

YOLO_TO_EPI ==
    [c \in EpiClasses |->
        CASE c = "hardhat"        -> [name |-> "helmet", value |-> TRUE]
          [] c = "no_hardhat"     -> [name |-> "helmet", value |-> FALSE]
          [] c = "safety_vest"    -> [name |-> "vest",   value |-> TRUE]
          [] c = "no_safety_vest" -> [name |-> "vest",   value |-> FALSE]
          [] c = "mask"           -> [name |-> "mask",   value |-> TRUE]
          [] c = "no_mask"        -> [name |-> "mask",   value |-> FALSE]]

\* df[df["object_class"] == "person"]
Persons(df) == SelectSeq(df, LAMBDA d : d.object_class = "person")

\* df[df["object_class"].isin(YOLO_TO_EPI.keys())]
Epis(df) == SelectSeq(df, LAMBDA d : d.object_class \in EpiClasses)

\* an Optional[bool] state: None, or the boolean b as Some(b)
Some(b) == IF b THEN "True" ELSE "False"

\* px <= cx <= px + pw and py <= cy <= py + ph, with cx = ex + ew/2 and
\* cy = ey + eh/2 (both sides doubled to stay in the integers)
EpiInside(p, e) ==
    /\ 2 * p.bbox_x <= 2 * e.bbox_x + e.bbox_w
    /\ 2 * e.bbox_x + e.bbox_w <= 2 * (p.bbox_x + p.bbox_w)
    /\ 2 * p.bbox_y <= 2 * e.bbox_y + e.bbox_h
    /\ 2 * e.bbox_y + e.bbox_h <= 2 * (p.bbox_y + p.bbox_h)

\* the inner loop of _associate_epi_to_persons for one person row p
RECURSIVE ScanEpis(_, _, _)
ScanEpis(slot, p, epis) ==
    IF epis = <<>> THEN slot
    ELSE LET e == Head(epis)
             m == YOLO_TO_EPI[e.object_class]
         IN  IF e.timestamp # p.timestamp \/ ~EpiInside(p, e)
             THEN ScanEpis(slot, p, Tail(epis))
             ELSE ScanEpis([slot EXCEPT ![m.name] = Some(m.value)], p, Tail(epis))

\* the outer loop of _associate_epi_to_persons: result[track_id] is set to a
\* fresh entry at every person row, then filled from the same-frame EPIs
RECURSIVE AssociateEpiToPersons(_, _, _)
AssociateEpiToPersons(result, persons, epis) ==
    IF persons = <<>> THEN result
    ELSE LET p     == Head(persons)
             fresh == [helmet |-> None, vest |-> None, mask |-> None]
         IN  AssociateEpiToPersons(
                 (p.track_id :> ScanEpis(fresh, p, epis)) @@ result,
                 Tail(persons), epis)

\* number of persons whose state for one EPI is v
EpiCount(person_epi, name, v) ==
    Cardinality({t \in DOMAIN person_epi : person_epi[t][name] = Some(v)})

\* sum(states) / len(states) if states else 0.0
ComplianceRatio(person_epi, name) ==
    LET ok  == EpiCount(person_epi, name, TRUE)
        all == ok + EpiCount(person_epi, name, FALSE)
    IN  IF all = 0 THEN 0 ELSE (Scale * ok) \div all

\* the update of _consecutive_violation_count
KeepViolationCount(count, has_violation) ==
    IF has_violation THEN count + 1 ELSE count
NextViolationCount(count, has_violation) ==
    IF has_violation THEN count + 1 ELSE 0

\* _consecutive_violation_count >= persistent_threshold
PersistentAfterThreshold(count, threshold) == count > threshold
PersistentViolation(count, threshold) == count >= threshold

EPIEmptyFeatures ==
    [helmet_compliance_ratio |-> 0, vest_compliance_ratio |-> 0,
     mask_compliance_ratio |-> 0, avg_epi_compliance |-> 0,
     num_no_helmet_events |-> 0, num_no_vest_events |-> 0,
     num_no_mask_events |-> 0, epi_violation_duration |-> 0,
     persistent_epi_violation |-> 0]

\* the two early returns of extract: the zero row, the instance as it was
EPIEarlyReturnReset(self) ==
    [self |-> [self EXCEPT !._consecutive_violation_count = 0],
     row  |-> EPIEmptyFeatures]
EPIEarlyReturn(self) == [self |-> self, row |-> EPIEmptyFeatures]

\* _consecutive_violation_count * window_duration
ViolationDurationInWindows(count, duration) == count
ViolationDuration(count, duration) == count * duration

\* EPIFeatures.extract on the instance self: the new instance and the row
EPIExtract(self, df) ==
    IF df = <<>> \/ Persons(df) = <<>>
    THEN EPIEarlyReturn(self)
    ELSE
    LET person_epi   == AssociateEpiToPersons(<<>>, Persons(df), Epis(df))
        helmet_ratio == ComplianceRatio(person_epi, "helmet")
        vest_ratio   == ComplianceRatio(person_epi, "vest")
        mask_ratio   == ComplianceRatio(person_epi, "mask")
        no_helmet    == EpiCount(person_epi, "helmet", FALSE)
        no_vest      == EpiCount(person_epi, "vest", FALSE)
        no_mask      == EpiCount(person_epi, "mask", FALSE)
        has_violation == (no_helmet + no_vest + no_mask) > 0
        count == NextViolationCount(self._consecutive_violation_count,
                                    has_violation)
    IN  [self |-> [self EXCEPT !._consecutive_violation_count = count],
         row  |-> [helmet_compliance_ratio |-> helmet_ratio,
                   vest_compliance_ratio |-> vest_ratio,
                   mask_compliance_ratio |-> mask_ratio,
                   avg_epi_compliance |->
                       (helmet_ratio + vest_ratio + mask_ratio) \div 3,
                   num_no_helmet_events |-> no_helmet,
                   num_no_vest_events |-> no_vest,
                   num_no_mask_events |-> no_mask,
                   epi_violation_duration |->
                       ViolationDuration(count, self.window_duration),
                   persistent_epi_violation |->
                       IF PersistentViolation(count, self.persistent_threshold)
                       THEN 1 ELSE 0]]

\* EPIFeatures.__init__
EPINew(duration, threshold) ==
    [window_duration |-> duration, persistent_threshold |-> threshold,
     _consecutive_violation_count |-> 0]

\* the detections the windows of the EPI runs are made of: person 1 at two
\* frames, a helmet and a missing helmet inside its box at the first frame,
\* and a missing mask outside its box
EpiDetections ==
    {Det(0, "person", 1, 0, 0, 4, 4), Det(1, "person", 1, 0, 0, 4, 4),
     Det(0, "no_hardhat", 7, 1, 1, 2, 2), Det(0, "hardhat", 8, 1, 0, 2, 2),
     Det(0, "no_mask", 11, 20, 20, 2, 2)}

EpiWindows == SeqsUpTo(EpiDetections, MaxEpiRows)

\* the EPI detections of the window, by position, whose centre lies in a
\* box of track t at their own timestamp and that tell about the EPI name
IndicatorsOfTrack(df, t, name) ==
    {j \in 1..Len(df) :
        /\ df[j].object_class \in EpiClasses
        /\ YOLO_TO_EPI[df[j].object_class].name = name
        /\ \E k \in 1..Len(df) :
               /\ df[k].object_class = "person"
               /\ df[k].track_id = t
               /\ df[k].timestamp = df[j].timestamp
               /\ EpiInside(df[k], df[j])}

\* some track of the window has exactly one indicator about the EPI name,
\* and it is a non-compliance indicator
LoneNonCompliance(df, name) ==
    \E t \in {df[k].track_id : k \in {j \in 1..Len(df) :
                                        df[j].object_class = "person"}} :
        /\ Cardinality(IndicatorsOfTrack(df, t, name)) = 1
        /\ \A j \in IndicatorsOfTrack(df, t, name) :
               YOLO_TO_EPI[df[j].object_class].value = FALSE

\* one call of EPIFeatures.extract
EPI_Extract ==
    /\ Len(epi_log) < MaxEpiCalls
    /\ \E df \in EpiWindows :
          LET r == EPIExtract(epi, df)
          IN  /\ epi' = r.self
              /\ epi_out' = r.row
              /\ epi_lone' = {name \in {"helmet", "vest", "mask"} :
                                  LoneNonCompliance(df, name)}
              /\ epi_log' = Append(epi_log,
                    [persons |-> Persons(df) # <<>>,
                     violation |-> r.row.num_no_helmet_events
                                   + r.row.num_no_vest_events
                                   + r.row.num_no_mask_events > 0,
                     epi_violation_duration |-> r.row.epi_violation_duration,
                     persistent_epi_violation |-> r.row.persistent_epi_violation,
                     count_after |-> r.self._consecutive_violation_count])

\* a fresh instance with windows of MaxDuration seconds and any threshold
InitEPIInstance ==
    /\ \E t \in 1..MaxThreshold : epi = EPINew(MaxDuration, t)
    /\ epi_out = EPIEmptyFeatures
    /\ epi_log = <<>>
    /\ epi_lone = {}

----------------------------------------------------------------------------
(* Claims on EPIFeatures *)

\* C6: on a fresh instance with threshold T, as long as every call so far was
\* on a window with an explicit violation, the n-th call returns
\* persistent_epi_violation = 0 for n < T and 1 for n >= T.
C6_PersistentAfterThresholdCalls ==
    \A n \in 1..Len(epi_log) :
        (\A j \in 1..n : epi_log[j].violation) =>
            epi_log[n].persistent_epi_violation =
                (IF n >= epi.persistent_threshold THEN 1 ELSE 0)

\* four violating windows in a row on an instance with the default threshold:
\* the third call fired and the fourth is still firing
C6_Witness ==
    /\ epi.persistent_threshold = 3
    /\ Len(epi_log) >= 4
    /\ \A j \in 1..4 : epi_log[j].violation
    /\ epi_log[3].persistent_epi_violation = 1

\* C7: a window with persons and no explicit violation leaves the counter
\* at 0 whatever it was; a violating window right after it returns a
\* duration of one window and, for a threshold above 1, no persistence.
C7_CleanWindowResetsCounter ==
    \A n \in 1..Len(epi_log) :
        (epi_log[n].persons /\ ~epi_log[n].violation) =>
            /\ epi_log[n].count_after = 0
            /\ (n < Len(epi_log) /\ epi_log[n + 1].violation) =>
                  /\ epi_log[n + 1].epi_violation_duration = epi.window_duration
                  /\ epi.persistent_threshold > 1 =>
                        epi_log[n + 1].persistent_epi_violation = 0

\* two violating windows, then a clean window with persons, then a
\* violating window again
C7_Witness ==
    /\ epi.persistent_threshold > 1
    /\ Len(epi_log) >= 4
    /\ epi_log[1].violation /\ epi_log[2].violation
    /\ epi_log[3].persons /\ ~epi_log[3].violation
    /\ epi_log[4].violation

\* the counter before call n on a fresh instance
CountBefore(n) == IF n = 1 THEN 0 ELSE epi_log[n - 1].count_after

\* C18: a call on an empty window or on a window without a person returns
\* the zero row and leaves the counter as it was; with threshold 3, two
\* violating windows, such a window and a violating window again give
\* persistent_epi_violation = 1 on the fourth call.
C18_NoPersonWindowKeepsTheStreak ==
    /\ \A n \in 1..Len(epi_log) :
          ~epi_log[n].persons =>
              /\ epi_log[n].count_after = CountBefore(n)
              /\ n = Len(epi_log) => epi_out = EPIEmptyFeatures
    /\ ( /\ epi.persistent_threshold = 3
         /\ Len(epi_log) >= 4
         /\ epi_log[1].violation /\ epi_log[2].violation
         /\ ~epi_log[3].persons
         /\ epi_log[4].violation )
       => epi_log[4].persistent_epi_violation = 1

\* violation, violation, a window without a person, violation, on an
\* instance of threshold 3: the fourth call fires with a counter of 3
C18_Witness ==
    /\ epi.persistent_threshold = 3
    /\ Len(epi_log) = 4
    /\ epi_log[1].violation /\ epi_log[2].violation
    /\ ~epi_log[3].persons
    /\ epi_log[4].violation
    /\ epi_log[4].count_after = 3
    /\ epi_out.persistent_epi_violation = 1

\* the counter relation on the row of call n
CounterRelation(n) ==
    /\ epi_log[n].epi_violation_duration =
           epi_log[n].count_after * epi.window_duration
    /\ epi_log[n].persistent_epi_violation = 1
           <=> epi_log[n].count_after >= epi.persistent_threshold

\* C19 as stated: every returned row holds the counter after the call times
\* the window duration, and the flag exactly when the counter has reached
\* the threshold.
C19_EveryRowReflectsTheCounter ==
    \A n \in 1..Len(epi_log) : CounterRelation(n)

\* C19 amended: the same for every row returned for a window with at least
\* one person detection; the zero row of the other windows holds 0 and 0
\* whatever the counter.
C19_RowsOfWindowsWithPersonsReflectTheCounter ==
    \A n \in 1..Len(epi_log) :
        IF epi_log[n].persons
        THEN CounterRelation(n)
        ELSE /\ epi_log[n].epi_violation_duration = 0
             /\ epi_log[n].persistent_epi_violation = 0

\* on an instance with windows of 2 seconds: a violating window, a window
\* without person while the counter is 1, then a violating window whose row
\* holds a duration of 4 seconds
C19_Witness ==
    /\ epi.window_duration = 2
    /\ epi.persistent_threshold = 2
    /\ Len(epi_log) >= 3
    /\ epi_log[1].violation
    /\ ~epi_log[2].persons /\ epi_log[2].count_after = 1
    /\ epi_log[3].violation
    /\ epi_log[3].epi_violation_duration = 4
    /\ epi_log[3].persistent_epi_violation = 1

\* the number of events the last returned row counts for an EPI
EventsOf(name) ==
    CASE name = "helmet" -> epi_out.num_no_helmet_events
      [] name = "vest"   -> epi_out.num_no_vest_events
      [] name = "mask"   -> epi_out.num_no_mask_events

\* C20: a window in which some track has, for one EPI, a single associated
\* indicator and that indicator tells non-compliance, counts an event for
\* that EPI and adds 1 to the violation counter, whether or not the track
\* is detected at other timestamps of the window.
C20_LoneNonComplianceIsCounted ==
    \A name \in epi_lone :
        /\ EventsOf(name) >= 1
        /\ epi_log[Len(epi_log)].count_after = CountBefore(Len(epi_log)) + 1

----------------------------------------------------------------------------
(* numpy helpers on fixed-point values *)

RECURSIVE Sum(_)
Sum(q) == IF q = <<>> THEN 0 ELSE Head(q) + Sum(Tail(q))

RECURSIVE SumSq(_)
SumSq(q) == IF q = <<>> THEN 0 ELSE Head(q) * Head(q) + SumSq(Tail(q))

\* the integer square root, by bisection on lo <= r < hi
RECURSIVE IsqrtIn(_, _, _)
IsqrtIn(n, lo, hi) ==
    IF hi - lo <= 1 THEN lo
    ELSE LET mid == (lo + hi) \div 2
         IN  IF mid * mid <= n THEN IsqrtIn(n, mid, hi) ELSE IsqrtIn(n, lo, mid)

Isqrt(n) == IsqrtIn(n, 0, 46341)

\* np.mean of a non-empty collection
Mean(q) == Sum(q) \div Len(q)

\* np.std of a non-empty collection (population standard deviation):
\* sqrt(n * sum(x^2) - sum(x)^2) / n
Std(q) == Isqrt(Len(q) * SumSq(q) - Sum(q) * Sum(q)) \div Len(q)

\* max(S), min(S) of a non-empty set
Max(S) == CHOOSE x \in S : \A y \in S : y <= x
Min(S) == CHOOSE x \in S : \A y \in S : x <= y

\* abs(x)
Abs(x) == IF x < 0 THEN 0 - x ELSE x

\* np.clip(x, 0.0, 1.0)
Clip01(x) == IF x < 0 THEN 0 ELSE IF x > Scale THEN Scale ELSE x

\* num / (den + 1e-6) for num, den >= 0: the epsilon is below the resolution
\* of the fixed point, it only decides the case den = 0, where the quotient
\* is 0 for num = 0 and beyond every clip bound otherwise
OverEps(num, den) ==
    IF den = 0 THEN (IF num = 0 THEN 0 ELSE Scale * Scale)
    ELSE (Scale * num) \div den

\* 1 / (1 + x)
InvOnePlus(x) == (Scale * Scale) \div (Scale + x)

\* int(round(x)): round half to even
RoundInt(x) ==
    LET q == x \div Scale
        r == x % Scale
    IN  IF 2 * r < Scale THEN q
        ELSE IF 2 * r > Scale THEN q + 1
        ELSE IF q % 2 = 0 THEN q ELSE q + 1

\* deque(maxlen = n).append(x)
DequeAppendKeepOldest(q, x, n) ==
    IF n = 0 THEN <<>>
    ELSE IF Len(q) >= n THEN q
    ELSE Append(q, x)
DequeAppend(q, x, n) ==
    IF n = 0 THEN <<>>
    ELSE IF Len(q) >= n THEN Append(Tail(q), x)
    ELSE Append(q, x)

\* dict.get(key, default)
Get(row, key, default) == IF key \in DOMAIN row THEN row[key] ELSE default

----------------------------------------------------------------------------
(* ActivityStabilityFeatures *)

\* ActivityStabilityFeatures.__init__
StabilityNew(h) ==
    [history_size |-> h, _speed_history |-> <<>>,
     _person_count_history |-> <<>>, _motion_score_history |-> <<>>]

\* _update_history
StabilityUpdateHistory(self, avg_speed, num_persons, erratic_motion) ==
    [self EXCEPT
        !._speed_history = DequeAppend(@, avg_speed, self.history_size),
        !._person_count_history = DequeAppend(@, num_persons, self.history_size),
        !._motion_score_history = DequeAppend(@, erratic_motion, self.history_size)]

StabilityNeutral ==
    [activity_persistence_score |-> Scale \div 2,
     motion_consistency |-> Scale \div 2,
     motion_stability_score |-> Scale \div 2]

\* the three scores, from histories of at least one sample
StabilityScoresFromSpeeds(speeds, persons, motions) ==
    [activity_persistence_score |-> InvOnePlus(Std(speeds)),
     motion_consistency |-> Clip01(Scale - OverEps(Std(speeds), Mean(speeds))),
     motion_stability_score |-> InvOnePlus(Std(motions))]
StabilityScores(speeds, persons, motions) ==
    [activity_persistence_score |-> InvOnePlus(Std(persons)),
     motion_consistency |-> Clip01(Scale - OverEps(Std(speeds), Mean(speeds))),
     motion_stability_score |-> InvOnePlus(Std(motions))]

\* len(self._speed_history) < 2
StabilityWarmUpBelowThree(self) == Len(self._speed_history) < 3
StabilityWarmUp(self) == Len(self._speed_history) < 2

\* ActivityStabilityFeatures.extract: the new instance and the row
StabilityExtract(self, current_features) ==
    LET avg_speed      == Get(current_features, "avg_person_speed", 0)
        num_persons    == Get(current_features, "avg_num_persons", 0)
        erratic_motion == Get(current_features, "erratic_motion_score", 0)
        updated == StabilityUpdateHistory(self, avg_speed, num_persons,
                                          erratic_motion)
    IN  [self |-> updated,
         row  |-> IF StabilityWarmUp(updated)
                  THEN StabilityNeutral
                  ELSE StabilityScores(updated._speed_history,
                                       updated._person_count_history,
                                       updated._motion_score_history)]

\* the rows handed to the inter-window extractors in their own runs; the
\* empty dict exercises the defaults of dict.get
FeatureRows ==
    {<<>>}
    \cup
    {[avg_person_speed |-> sp, avg_num_persons |-> n,
      erratic_motion_score |-> em, num_persons_in_zone |-> z,
      num_people_in_high_risk_zone |-> hr] :
        sp \in {2 * Scale}, n \in {Scale, 3 * Scale, 10 * Scale}, em \in {0},
        z \in {0, 2}, hr \in {0}}
    \cup
    {[avg_person_speed |-> 0, avg_num_persons |-> Scale,
      erratic_motion_score |-> Scale, num_persons_in_zone |-> 2,
      num_people_in_high_risk_zone |-> 2]}

\* ActivityStabilityFeatures.extract called on the row
Stability_Call(row) ==
    /\ stab' = StabilityExtract(stab, row).self
    /\ stab_log' = Append(stab_log,
          [avg_speed |-> Get(row, "avg_person_speed", 0),
           num_persons |-> Get(row, "avg_num_persons", 0),
           erratic_motion |-> Get(row, "erratic_motion_score", 0),
           out |-> StabilityExtract(stab, row).row])

\* one call of ActivityStabilityFeatures.extract
Stability_Extract ==
    /\ Len(stab_log) < MaxStabCalls
    /\ \E row \in FeatureRows : Stability_Call(row)

InitStabilityInstance ==
    /\ \E h \in 1..MaxHistory : stab = StabilityNew(h)
    /\ stab_log = <<>>

----------------------------------------------------------------------------
(* Claims on ActivityStabilityFeatures *)

\* the values of one logged field over calls lo..hi
LogField(log, field, lo, hi) == [j \in 1..(hi - lo + 1) |-> log[lo + j - 1][field]]

\* first of the calls whose samples are in a history of capacity h after n calls
Oldest(n, h) == IF n > h THEN n - h + 1 ELSE 1

\* C8: with a history capacity of at least 2, the first call on a fresh
\* instance returns exactly (0.5, 0.5, 0.5) whatever the row, and the n-th
\* call (n >= 2) returns the scores computed over the samples of the most
\* recent min(n, capacity) calls, the current one included.
C8_FirstCallNeutralThenComputed ==
    stab.history_size >= 2 =>
        \A n \in 1..Len(stab_log) :
            IF n = 1
            THEN /\ stab_log[n].out.activity_persistence_score = Scale \div 2
                 /\ stab_log[n].out.motion_consistency = Scale \div 2
                 /\ stab_log[n].out.motion_stability_score = Scale \div 2
            ELSE LET lo == Oldest(n, stab.history_size)
                 IN  stab_log[n].out =
                        StabilityScores(LogField(stab_log, "avg_speed", lo, n),
                                        LogField(stab_log, "num_persons", lo, n),
                                        LogField(stab_log, "erratic_motion", lo, n))

\* a second call whose computed scores differ from the neutral triple, after
\* a first call that returned it
C8_Witness ==
    /\ stab.history_size >= 2
    /\ Len(stab_log) >= 2
    /\ stab_log[1].out = StabilityNeutral
    /\ stab_log[2].out # StabilityNeutral

----------------------------------------------------------------------------
(* ActivityTransitionFeatures *)

\* ActivityTransitionFeatures.__init__
TransitionNew(h) ==
    [history_size |-> h, _person_count_history |-> <<>>,
     _zone_count_history |-> <<>>, _high_risk_history |-> <<>>]

\* _update_history
TransitionUpdateHistory(self, num_persons, num_zones, num_high_risk) ==
    [self EXCEPT
        !._person_count_history = DequeAppend(@, num_persons, self.history_size),
        !._zone_count_history = DequeAppend(@, num_zones, self.history_size),
        !._high_risk_history = DequeAppend(@, num_high_risk, self.history_size)]

\* _empty_features
TransitionEmptyFeatures ==
    [activity_change_rate |-> 0, zone_transition_count |-> 0,
     risk_transition_score |-> 0]

\* a history of integer counts as fixed-point values
AsFloats(q) == [j \in 1..Len(q) |-> Scale * q[j]]

\* the three scores, from the histories before the current sample is appended
TransitionScoresOverSum(persons, zones, high_risks, num_persons) ==
    LET prev_persons  == Sum(persons)
        delta_persons == IF num_persons >= prev_persons
                         THEN num_persons - prev_persons
                         ELSE prev_persons - num_persons
    IN  [activity_change_rate |->
             Clip01(IF prev_persons > 0
                    THEN (Scale * delta_persons) \div prev_persons
                    ELSE 0),
         zone_transition_count |-> RoundInt(Std(AsFloats(zones))),
         risk_transition_score |->
             Clip01(OverEps(Std(AsFloats(high_risks)),
                            Mean(AsFloats(high_risks))))]
TransitionScores(persons, zones, high_risks, num_persons) ==
    LET prev_persons  == Mean(persons)
        delta_persons == IF num_persons >= prev_persons
                         THEN num_persons - prev_persons
                         ELSE prev_persons - num_persons
    IN  [activity_change_rate |->
             Clip01(IF prev_persons > 0
                    THEN (Scale * delta_persons) \div prev_persons
                    ELSE 0),
         zone_transition_count |-> RoundInt(Std(AsFloats(zones))),
         risk_transition_score |->
             Clip01(OverEps(Std(AsFloats(high_risks)),
                            Mean(AsFloats(high_risks))))]

\* len(self._person_count_history) < 2
TransitionWarmUpBelowThree(self) == Len(self._person_count_history) < 3
TransitionWarmUp(self) == Len(self._person_count_history) < 2

\* ActivityTransitionFeatures.extract: the new instance and the row
TransitionExtractAfterUpdate(self, current_features) ==
    LET num_persons   == Get(current_features, "avg_num_persons", 0)
        num_zones     == Get(current_features, "num_persons_in_zone", 0)
        num_high_risk == Get(current_features, "num_people_in_high_risk_zone", 0)
        updated == TransitionUpdateHistory(self, num_persons, num_zones,
                                           num_high_risk)
    IN  [self |-> updated,
         row  |-> IF TransitionWarmUp(self)
                  THEN TransitionEmptyFeatures
                  ELSE TransitionScores(updated._person_count_history,
                                        updated._zone_count_history,
                                        updated._high_risk_history,
                                        num_persons)]
TransitionExtract(self, current_features) ==
    LET num_persons   == Get(current_features, "avg_num_persons", 0)
        num_zones     == Get(current_features, "num_persons_in_zone", 0)
        num_high_risk == Get(current_features, "num_people_in_high_risk_zone", 0)
    IN  [self |-> TransitionUpdateHistory(self, num_persons, num_zones,
                                          num_high_risk),
         row  |-> IF TransitionWarmUp(self)
                  THEN TransitionEmptyFeatures
                  ELSE TransitionScores(self._person_count_history,
                                        self._zone_count_history,
                                        self._high_risk_history,
                                        num_persons)]

\* ActivityTransitionFeatures.extract called on the row
Transition_Call(row) ==
    /\ trans' = TransitionExtract(trans, row).self
    /\ trans_log' = Append(trans_log,
          [num_persons |-> Get(row, "avg_num_persons", 0),
           num_zones |-> Get(row, "num_persons_in_zone", 0),
           num_high_risk |-> Get(row, "num_people_in_high_risk_zone", 0),
           out |-> TransitionExtract(trans, row).row])

\* one call of ActivityTransitionFeatures.extract
Transition_Extract ==
    /\ Len(trans_log) < MaxStabCalls
    /\ \E row \in FeatureRows : Transition_Call(row)

\* the row of one window handed to both inter-window extractors, the
\* stability extractor first
InterWindow_Extract ==
    /\ Len(stab_log) < MaxStabCalls
    /\ \E row \in FeatureRows : Stability_Call(row) /\ Transition_Call(row)

\* two fresh inter-window extractors of the same capacity
InitInterWindowInstances ==
    /\ \E h \in 1..MaxHistory :
          stab = StabilityNew(h) /\ trans = TransitionNew(h)
    /\ stab_log = <<>>
    /\ trans_log = <<>>

InitTransitionInstance ==
    /\ \E h \in 1..MaxHistory : trans = TransitionNew(h)
    /\ trans_log = <<>>

----------------------------------------------------------------------------
(* Claims on ActivityTransitionFeatures *)

\* the first two calls return the zero row and the sample of the last call
\* ends each history; the third call returns the scores of its sample
\* against the samples of the first two calls
TransitionWarmUpShape ==
    /\ \A n \in 1..Len(trans_log) :
          n <= 2 => /\ trans_log[n].out.activity_change_rate = 0
                    /\ trans_log[n].out.zone_transition_count = 0
                    /\ trans_log[n].out.risk_transition_score = 0
    /\ Len(trans_log) \in 1..2 =>
          LET n == Len(trans_log)
              k == Len(trans._person_count_history)
          IN  /\ k >= 1
              /\ Len(trans._zone_count_history) = k
              /\ Len(trans._high_risk_history) = k
              /\ trans._person_count_history[k] = trans_log[n].num_persons
              /\ trans._zone_count_history[k] = trans_log[n].num_zones
              /\ trans._high_risk_history[k] = trans_log[n].num_high_risk
    /\ Len(trans_log) >= 3 =>
          trans_log[3].out =
              TransitionScores(LogField(trans_log, "num_persons", 1, 2),
                               LogField(trans_log, "num_zones", 1, 2),
                               LogField(trans_log, "num_high_risk", 1, 2),
                               trans_log[3].num_persons)

----------------------------------------------------------------------------
(* Claims on the histories of the two inter-window extractors *)

\* the history of a field after the calls of the log, for a capacity h: the
\* values of the most recent min(n, h) calls, in call order
RecentCalls(log, field, h) ==
    LogField(log, field, Oldest(Len(log), h), Len(log))

\* C25: after n calls the three histories of an instance of capacity h have
\* length min(n, h) and hold the values of the most recent min(n, h) calls,
\* in call order; with h = 1 every call returns the neutral row.
C25_HistoriesHoldTheMostRecentCalls ==
    /\ stab._speed_history
           = RecentCalls(stab_log, "avg_speed", stab.history_size)
    /\ stab._person_count_history
           = RecentCalls(stab_log, "num_persons", stab.history_size)
    /\ stab._motion_score_history
           = RecentCalls(stab_log, "erratic_motion", stab.history_size)
    /\ trans._person_count_history
           = RecentCalls(trans_log, "num_persons", trans.history_size)
    /\ trans._zone_count_history
           = RecentCalls(trans_log, "num_zones", trans.history_size)
    /\ trans._high_risk_history
           = RecentCalls(trans_log, "num_high_risk", trans.history_size)
    /\ Len(stab._speed_history) = Min({Len(stab_log), stab.history_size})
    /\ Len(trans._zone_count_history) = Min({Len(trans_log), trans.history_size})
    /\ stab.history_size = 1 =>
          \A n \in 1..Len(stab_log) : stab_log[n].out = StabilityNeutral
    /\ trans.history_size = 1 =>
          \A n \in 1..Len(trans_log) : trans_log[n].out = TransitionEmptyFeatures

\* four calls with four different person counts on instances of capacity 2:
\* the samples of the first two calls are evicted
C25_Witness ==
    /\ stab.history_size = 2 /\ trans.history_size = 2
    /\ Len(stab_log) = 4 /\ Len(trans_log) = 4
    /\ stab_log[1].num_persons = 0
    /\ stab_log[2].num_persons = Scale
    /\ stab_log[3].num_persons = 3 * Scale
    /\ stab_log[4].num_persons = 10 * Scale
    /\ stab._person_count_history = <<3 * Scale, 10 * Scale>>
    /\ trans._person_count_history = <<3 * Scale, 10 * Scale>>

\* the samples a history of capacity h holds when call n starts
PriorCalls(log, field, n, h) == LogField(log, field, Oldest(n - 1, h), n - 1)

\* C26: the transition extractor scores call n on the samples of the earlier
\* calls only: zone_transition_count and risk_transition_score are those of
\* the histories as call n found them, whatever the current row, and the
\* current sample ends each history when the call returns. The stability
\* extractor scores call n on histories that end with the current sample.
C26_TransitionScoresBeforeAppendStabilityAfter ==
    /\ \A n \in 3..Len(trans_log) :
          LET zones == PriorCalls(trans_log, "num_zones", n, trans.history_size)
              risks == PriorCalls(trans_log, "num_high_risk", n,
                                  trans.history_size)
          IN  IF Len(zones) < 2
              THEN trans_log[n].out = TransitionEmptyFeatures
              ELSE /\ trans_log[n].out.zone_transition_count
                          = RoundInt(Std(AsFloats(zones)))
                   /\ trans_log[n].out.risk_transition_score
                          = Clip01(OverEps(Std(AsFloats(risks)),
                                           Mean(AsFloats(risks))))
    /\ Len(trans_log) >= 1 =>
          LET n == Len(trans_log)
              k == Len(trans._zone_count_history)
          IN  /\ k = Min({n, trans.history_size})
              /\ trans._person_count_history[k] = trans_log[n].num_persons
              /\ trans._zone_count_history[k] = trans_log[n].num_zones
              /\ trans._high_risk_history[k] = trans_log[n].num_high_risk
              /\ SubSeq(trans._zone_count_history, 1, k - 1)
                     = PriorCalls(trans_log, "num_zones", n,
                                  trans.history_size - 1)
    /\ \A n \in 2..Len(stab_log) :
          stab.history_size >= 2 =>
              stab_log[n].out.activity_persistence_score
                  = InvOnePlus(Std(RecentCalls(SubSeq(stab_log, 1, n),
                                               "num_persons",
                                               stab.history_size)))

\* a third call whose row has a zone count unlike the two before it: the
\* transition extractor returns the count of the first two samples alone,
\* the stability extractor a persistence that feels the current sample
C26_Witness ==
    /\ trans.history_size >= 2 /\ stab.history_size >= 3
    /\ Len(trans_log) = 3 /\ Len(stab_log) = 3
    /\ trans_log[1].num_zones = 2 /\ trans_log[2].num_zones = 2
    /\ trans_log[3].num_zones = 0
    /\ trans_log[3].out.zone_transition_count = 0
    /\ stab_log[1].num_persons = stab_log[2].num_persons
    /\ stab_log[3].num_persons # stab_log[2].num_persons
    /\ stab_log[2].out.activity_persistence_score = Scale
    /\ stab_log[3].out.activity_persistence_score < Scale

\* C27: from the third call on, activity_change_rate is
\* clip(|current - mean(history)| / (mean(history) + epsilon), 0, 1), also
\* for a history of mean 0 and a positive current count, where it is 1.0.
C27_ChangeRateFollowsTheFormula ==
    \A n \in 3..Len(trans_log) :
        LET persons == PriorCalls(trans_log, "num_persons", n,
                                  trans.history_size)
        IN  Len(persons) >= 2 =>
               trans_log[n].out.activity_change_rate
                   = Clip01(OverEps(Abs(trans_log[n].num_persons - Mean(persons)),
                                    Mean(persons)))

----------------------------------------------------------------------------
(* HumanPresenceFeatures *)

\* the sum of the function f over the finite set S
RECURSIVE SetSum(_, _)
SetSum(S, f) ==
    IF S = {} THEN 0
    ELSE LET x == CHOOSE y \in S : TRUE
         IN  f[x] + SetSum(S \ {x}, f)


Rows(df) == {df[j] : j \in 1..Len(df)}
Timestamps(df) == {d.timestamp : d \in Rows(df)}
TrackIds(df) == {d.track_id : d \in Rows(df)}
TracksAt(df, ts) == {d.track_id : d \in {e \in Rows(df) : e.timestamp = ts}}
RowsOfTrack(df, tid) == SelectSeq(df, LAMBDA d : d.track_id = tid)

CROWDING_THRESHOLD == 5

\* HumanPresenceFeatures.__init__ with the default stationary_threshold
HumanNew(image_width, image_height) ==
    [image_area |-> image_width * image_height, stationary_threshold |-> 2]

\* displacement < stationary_threshold for a track seen at least twice
IsStationary(self, track_df) ==
    LET dx == Max({d.bbox_x : d \in Rows(track_df)}) - Min({d.bbox_x : d \in Rows(track_df)})
        dy == Max({d.bbox_y : d \in Rows(track_df)}) - Min({d.bbox_y : d \in Rows(track_df)})
    IN  dx * dx + dy * dy < self.stationary_threshold * self.stationary_threshold

\* the row returned when the window holds no person
HumanEmptyFeaturesWithoutHeight ==
    [avg_num_persons |-> 0, max_num_persons |-> 0, unique_person_tracks |-> 0,
     person_density |-> 0, person_presence_ratio |-> 0,
     num_person_entries |-> 0, stationary_person_ratio |-> 0,
     crowding_score |-> 0]
HumanEmptyFeatures ==
    [avg_num_persons |-> 0, max_num_persons |-> 0, unique_person_tracks |-> 0,
     person_density |-> 0, person_presence_ratio |-> 0,
     num_person_entries |-> 0, stationary_person_ratio |-> 0,
     crowding_score |-> 0, avg_person_height |-> 0]

\* HumanPresenceFeatures.extract
HumanExtract(self, window_df) ==
    LET df == Persons(window_df)
    IN  IF df = <<>> THEN HumanEmptyFeatures
        ELSE
        LET frames == Timestamps(df)
            PerFrame == [ts \in frames |-> Cardinality(TracksAt(df, ts))]
            avg == (Scale * SetSum(frames, PerFrame)) \div Cardinality(frames)
            total_frames == Cardinality(Timestamps(window_df))
            total_tracks == Cardinality(TrackIds(df))
            stationary_tracks ==
                Cardinality({t \in TrackIds(df) :
                                /\ Len(RowsOfTrack(df, t)) >= 2
                                /\ IsStationary(self, RowsOfTrack(df, t))})
        IN  [avg_num_persons |-> avg,
             max_num_persons |-> Scale * Max({PerFrame[ts] : ts \in frames}),
             unique_person_tracks |-> total_tracks,
             person_density |->
                 IF self.image_area > 0 THEN avg \div self.image_area ELSE 0,
             person_presence_ratio |->
                 IF total_frames > 0
                 THEN (Scale * Cardinality(frames)) \div total_frames ELSE 0,
             num_person_entries |->
                 Cardinality({t \in TrackIds(df) : Len(RowsOfTrack(df, t)) = 1}),
             avg_person_height |->
                 (Scale * Sum([j \in 1..Len(df) |-> df[j].bbox_h])) \div Len(df),
             stationary_person_ratio |->
                 IF total_tracks > 0
                 THEN (Scale * stationary_tracks) \div total_tracks ELSE 0,
             crowding_score |->
                 IF avg \div CROWDING_THRESHOLD < Scale
                 THEN avg \div CROWDING_THRESHOLD ELSE Scale]

----------------------------------------------------------------------------
(* Cells and rows of the pipeline tables *)

\* a cell is a number the model tracks, a finite float it does not track,
\* None, or NaN
Num(x) == [kind |-> "num", val |-> x]
Float  == [kind |-> "float", val |-> 0]
NoneCell == [kind |-> "none", val |-> 0]
NaN    == [kind |-> "nan", val |-> 0]

IsMissing(cell) == cell.kind \in {"none", "nan"}

Range(q) == {q[j] : j \in 1..Len(q)}

\* a dict: its keys in insertion order and the cell of each key
Dict(keys, cells) == [keys |-> keys, cells |-> cells]

\* a dict of tracked numbers, given as a record and the order of its keys
Cells(keys, d) == Dict(keys, [k \in Range(keys) |-> Num(d[k])])

\* a dict of floats the model does not track
Untracked(keys) == Dict(keys, [k \in Range(keys) |-> Float])

\* the tracked numbers of a row, as the dict the inter-window extractors read
Tracked(row) ==
    [k \in {c \in Range(row.keys) : row.cells[c].kind = "num"} |->
        row.cells[k].val]

\* row.update(d): a new key goes to the end, a known key keeps its place
Update(row, d) ==
    Dict(row.keys \o SelectSeq(d.keys, LAMBDA k : k \notin Range(row.keys)),
         d.cells @@ row.cells)

MetadataKeys ==
    <<"window_index", "window_start", "window_end", "camera_id",
      "num_detections">>

\* the key order of the two dicts HumanPresenceFeatures.extract builds
HumanEmptyKeys ==
    <<"avg_num_persons", "max_num_persons", "unique_person_tracks",
      "person_density", "person_presence_ratio", "num_person_entries",
      "stationary_person_ratio", "crowding_score", "avg_person_height">>

HumanKeys ==
    <<"avg_num_persons", "max_num_persons", "unique_person_tracks",
      "person_density", "person_presence_ratio", "num_person_entries",
      "avg_person_height", "stationary_person_ratio", "crowding_score">>

EPIKeys ==
    <<"helmet_compliance_ratio", "vest_compliance_ratio",
      "mask_compliance_ratio", "avg_epi_compliance", "num_no_helmet_events",
      "num_no_vest_events", "num_no_mask_events", "epi_violation_duration",
      "persistent_epi_violation">>

MachineKeys ==
    <<"num_machines_avg", "machine_presence_ratio", "unique_machine_tracks",
      "machine_type_ratio", "co_presence_person_machine",
      "machine_dominance_ratio", "machine_only_duration">>

\* the keys ProximityFeatures.extract returns on a non-empty window
ProximityKeys ==
    <<"avg_person_person_distance", "std_person_person_distance",
      "avg_person_machine_distance", "min_person_person_distance",
      "min_person_machine_distance", "dangerous_proximity_frames",
      "bbox_overlap_person_machine", "time_near_machine",
      "num_machine_interactions">>

TemporalKeys ==
    <<"avg_person_speed", "std_person_speed", "direction_variance",
      "track_lifetime_mean", "sudden_stop_events", "erratic_motion_score",
      "high_speed_near_machine">>

ZoneKeys ==
    <<"num_persons_in_zone", "time_in_zone", "multiple_zone_exposure",
      "num_people_in_high_risk_zone", "proportion_time_in_high_risk_zone",
      "zone_entry_exit_events", "first_entry_time", "last_exit_time">>

StabilityKeys ==
    <<"activity_persistence_score", "motion_consistency",
      "motion_stability_score">>

TransitionKeys ==
    <<"activity_change_rate", "zone_transition_count",
      "risk_transition_score">>

\* the number of speed samples TemporalDynamicsFeatures.extract computes:
\* per person track, one per pair of consecutive rows with dt > 0
NumSpeedSamples(window_df) ==
    LET df == Persons(window_df)
        Samples == [t \in TrackIds(df) |->
                       Cardinality(Timestamps(RowsOfTrack(df, t))) - 1]
    IN  SetSum(TrackIds(df), Samples)

\* the rows TemporalDynamicsFeatures.extract can return on a window: the
\* speed statistics are 0.0 without a speed sample and the erratic-motion
\* score needs two samples to differ from 0.0; their magnitude depends on
\* the boxes and is left open
TemporalRows(window_df) ==
    {Dict(TemporalKeys,
          [avg_person_speed |-> Num(sp), erratic_motion_score |-> Num(em)]
              @@ Untracked(TemporalKeys).cells) :
        sp \in IF NumSpeedSamples(window_df) >= 1 THEN {0, 2 * Scale} ELSE {0},
        em \in IF NumSpeedSamples(window_df) >= 2 THEN {0, Scale} ELSE {0}}

\* ZoneFeatures._empty_features
ZoneEmptyFeatures ==
    Dict(ZoneKeys,
         [k \in {"first_entry_time", "last_exit_time"} |-> NoneCell]
             @@ [k \in Range(ZoneKeys) |-> Num(0)])

----------------------------------------------------------------------------
(* One HumanPresenceFeatures instance, called on arbitrary windows *)

\* the detections the windows of the human-presence runs are made of: person
\* 1 at two frames (still or moved at the second), person 2, a machine and
\* an EPI indicator
HumanDetections ==
    {Det(0, "person", 1, 0, 0, 4, 4), Det(1, "person", 1, 0, 0, 4, 4),
     Det(1, "person", 1, 5, 0, 4, 4), Det(0, "person", 2, 10, 0, 4, 6),
     Det(0, "excavator", 5, 20, 0, 8, 8), Det(1, "no_hardhat", 7, 1, 1, 2, 2)}

HumanWindows == SeqsUpTo(HumanDetections, MaxHumanRows)

\* the keys of the dict extract returns, in insertion order
HumanRowKeys(window_df) ==
    IF Persons(window_df) = <<>> THEN HumanEmptyKeys ELSE HumanKeys

\* one call of HumanPresenceFeatures.extract
Human_Extract ==
    /\ \E window_df \in HumanWindows :
          human_call' = <<[window_df |-> window_df,
                           keys |-> HumanRowKeys(window_df),
                           out |-> HumanExtract(human, window_df)]>>
    /\ UNCHANGED human

InitHumanInstance ==
    /\ human \in {HumanNew(10, 10), HumanNew(0, 0)}
    /\ human_call = <<>>

----------------------------------------------------------------------------
(* Claims on HumanPresenceFeatures *)

NineHumanFields ==
    {"avg_num_persons", "max_num_persons", "unique_person_tracks",
     "person_density", "person_presence_ratio", "num_person_entries",
     "stationary_person_ratio", "crowding_score", "avg_person_height"}

\* C12: extract on a window without a person detection, empty or holding
\* only other classes, returns exactly nine fields, the nine named ones, all
\* equal to 0.
C12_NoPersonGivesNineFieldZeroRow ==
    \A n \in 1..Len(human_call) :
        LET c == human_call[n]
        IN  (\A j \in 1..Len(c.window_df) :
                 c.window_df[j].object_class # "person") =>
                /\ DOMAIN c.out = NineHumanFields
                /\ Range(c.keys) = NineHumanFields
                /\ Len(c.keys) = 9
                /\ \A f \in NineHumanFields : c.out[f] = 0

\* a call on a window that holds detections, none of them a person
C12_Witness ==
    /\ Len(human_call) = 1
    /\ Len(human_call[1].window_df) >= 2
    /\ \A j \in 1..Len(human_call[1].window_df) :
           human_call[1].window_df[j].object_class # "person"
    /\ human_call[1].out.avg_person_height = 0

\* C28: on a window with at least one person, stationary_person_ratio is
\* the number of distinct person tracks whose displacement across the window
\* is below the threshold, a track seen once having displacement 0, over the
\* number of distinct person tracks.
C28_StationaryRatioCountsEveryStillTrack ==
    \A n \in 1..Len(human_call) :
        LET df == Persons(human_call[n].window_df)
        IN  df # <<>> =>
               human_call[n].out.stationary_person_ratio
                   = (Scale * Cardinality({t \in TrackIds(df) :
                                  IsStationary(human, RowsOfTrack(df, t))}))
                         \div Cardinality(TrackIds(df))

----------------------------------------------------------------------------
(* HomographyUtils.apply_homography *)

\* a / b on floats: the fixed-point quotient, rounded to the nearest unit
FloatDivByOne(a, b) == a
FloatDiv(a, b) ==
    LET n == IF b < 0 THEN 0 - a ELSE a
        d == IF b < 0 THEN 0 - b ELSE b
    IN  (2 * Scale * n + d) \div (2 * d)

\* H @ np.array([x, y, 1.0]) for a matrix of integer entries
MatVec(H, x, y) ==
    [r \in 1..3 |-> H[r][1] * x + H[r][2] * y + H[r][3] * Scale]

\* apply_homography(x, y, H)
ApplyHomography(x, y, H) ==
    LET point_plan == MatVec(H, x, y)
    IN  IF point_plan[3] = 0 THEN <<0, 0>>
        ELSE <<FloatDiv(point_plan[1], point_plan[3]),
               FloatDiv(point_plan[2], point_plan[3])>>

Identity == <<<<1, 0, 0>>, <<0, 1, 0>>, <<0, 0, 1>>>>

\* the matrices of the homography runs: the identity, scalings, shears, and
\* third rows that vanish on every point, on a line, or nowhere
HomMatrices ==
    {<<r1, r2, r3>> :
        r1 \in {<<1, 0, 0>>, <<2, 0, 1>>},
        r2 \in {<<0, 1, 0>>, <<1, 1, 0>>},
        r3 \in {<<0, 0, 1>>, <<0, 0, 0>>, <<1, 0, 0 - 1>>, <<0, 0, 2>>,
                <<1, 1, 1>>}}

HomCoords == {0 - Scale, 0, Scale \div 2, Scale, 2 * Scale}

\* one call of HomographyUtils.apply_homography
Apply_Homography ==
    \E x \in HomCoords, y \in HomCoords, H \in HomMatrices :
        hom_call' = <<[x |-> x, y |-> y, H |-> H,
                       out |-> ApplyHomography(x, y, H)]>>

InitHomography == hom_call = <<>>

----------------------------------------------------------------------------
(* Claims on HomographyUtils.apply_homography *)

\* q is the quotient a / w to the resolution of the fixed point
IsQuotient(q, a, w) == 2 * Abs(q * w - Scale * a) <= Abs(w)

\* C13: under the identity matrix a point is mapped to itself; a point whose
\* third homogeneous coordinate is zero is mapped to (0.0, 0.0); any other
\* point is mapped to its first two homogeneous coordinates divided by the
\* third.
C13_IdentityZeroOrPerspectiveDivide ==
    \A n \in 1..Len(hom_call) :
        LET c  == hom_call[n]
            xh == c.H[1][1] * c.x + c.H[1][2] * c.y + c.H[1][3] * Scale
            yh == c.H[2][1] * c.x + c.H[2][2] * c.y + c.H[2][3] * Scale
            w  == c.H[3][1] * c.x + c.H[3][2] * c.y + c.H[3][3] * Scale
        IN  /\ c.H = Identity => c.out = <<c.x, c.y>>
            /\ w = 0 => c.out = <<0, 0>>
            /\ w # 0 => /\ IsQuotient(c.out[1], xh, w)
                        /\ IsQuotient(c.out[2], yh, w)

\* a call whose third homogeneous coordinate is zero while the first two
\* are not: the result is the origin
C13_Witness ==
    /\ Len(hom_call) = 1
    /\ hom_call[1].H[3] = <<1, 0, 0 - 1>>
    /\ hom_call[1].x = Scale
    /\ hom_call[1].H[1][1] * hom_call[1].x # 0
    /\ hom_call[1].y # 0
    /\ hom_call[1].out = <<0, 0>>

----------------------------------------------------------------------------
(* ZoneUtils.point_in_polygon *)

\* (y1 > y) != (y2 > y)
RayCrossesUpward(y, y1, y2) == (y1 <= y) /\ (y2 > y)
RayCrosses(y, y1, y2) == (y1 > y) # (y2 > y)

\* x < (x2 - x1) * (y - y1) / (y2 - y1 + 1e-9) + x1, for y1 # y2. The
\* epsilon is below the resolution of the fixed point: it only decides the
\* case where x lies exactly on the edge, by shrinking the quotient when
\* y2 > y1 and stretching it when y2 < y1
LeftOfIntersect(x, y, x1, y1, x2, y2) ==
    LET num == (x2 - x1) * (y - y1)
        den == y2 - y1
        lhs == (x - x1) * den
    IN  IF lhs = num THEN num < 0
        ELSE IF den > 0 THEN lhs < num ELSE lhs > num

\* the loop over the edges polygon[i], polygon[(i + 1) % n], vertices
\* numbered from 1
RECURSIVE RayCast(_, _, _, _)
RayCast(point, polygon, k, inside) ==
    IF k > Len(polygon) THEN inside
    ELSE LET p1 == polygon[k]
             p2 == polygon[(k % Len(polygon)) + 1]
             toggle == /\ RayCrosses(point[2], p1[2], p2[2])
                       /\ LeftOfIntersect(point[1], point[2],
                                          p1[1], p1[2], p2[1], p2[2])
         IN  RayCast(point, polygon, k + 1, IF toggle THEN ~inside ELSE inside)

\* point_in_polygon(point, polygon)
PointInPolygon(point, polygon) == RayCast(point, polygon, 1, FALSE)

\* the square [(0,0), (1,0), (1,1), (0,1)]
UnitSquare == <<<<0, 0>>, <<Scale, 0>>, <<Scale, Scale>>, <<0, Scale>>>>

\* the vertex list q started k vertices later
Rotate(q, k) == [j \in 1..Len(q) |-> q[((j - 1 + k) % Len(q)) + 1]]

\* the vertex list q in the opposite orientation
Reverse(q) == [j \in 1..Len(q) |-> q[Len(q) + 1 - j]]

\* the polygons of the point_in_polygon runs: the square from every start
\* vertex in both orientations, a triangle, and the empty list
Polygons ==
    {Rotate(UnitSquare, k) : k \in 0..3}
    \cup {Rotate(Reverse(UnitSquare), k) : k \in 0..3}
    \cup {<<<<0, 0>>, <<2 * Scale, 0>>, <<0, Scale>>>>, <<>>}

PolyCoords ==
    {0 - Scale, 0, Scale \div 4, Scale \div 2, Scale, (3 * Scale) \div 2,
     2 * Scale}

\* one call of ZoneUtils.point_in_polygon
Point_In_Polygon ==
    \E x \in PolyCoords, y \in PolyCoords, polygon \in Polygons :
        poly_call' = <<[point |-> <<x, y>>, polygon |-> polygon,
                        out |-> PointInPolygon(<<x, y>>, polygon)]>>

InitPolygon == poly_call = <<>>

----------------------------------------------------------------------------
(* Claims on ZoneUtils.point_in_polygon *)

\* C14: on the unit square given from any start vertex, a point strictly
\* inside the square is reported inside and a point strictly outside it is
\* reported outside.
C14_SquareInsideAndOutside ==
    \A n \in 1..Len(poly_call) :
        LET c == poly_call[n]
            x == c.point[1]
            y == c.point[2]
        IN  (\E k \in 0..3 : c.polygon = Rotate(UnitSquare, k)) =>
                /\ (0 < x /\ x < Scale /\ 0 < y /\ y < Scale) => c.out = TRUE
                /\ (x < 0 \/ x > Scale \/ y < 0 \/ y > Scale) => c.out = FALSE

\* a call on the square started from its third vertex, with a point left of
\* the square at mid height: the ray crosses both vertical edges
C14_Witness ==
    /\ Len(poly_call) = 1
    /\ poly_call[1].polygon = Rotate(UnitSquare, 2)
    /\ poly_call[1].point = <<0 - Scale, Scale \div 2>>
    /\ poly_call[1].out = FALSE

----------------------------------------------------------------------------
(* ZoneFeatures *)

\* homography = None
NoHomography == <<>>

\* a zone of the zone source
Zone(id, type, risk_level, polygon) ==
    [id |-> id, type |-> type, risk_level |-> risk_level, polygon |-> polygon]

\* ZoneFeatures.__init__
ZoneNew(zones, homography, duration) ==
    [zones |-> zones, H |-> homography, window_duration |-> duration,
     _first_entry_time |-> <<>>, _last_exit_time |-> <<>>]

\* the point of a person row that is projected: (bbox_x, bbox_y + bbox_h / 2)
ProjectedPoint(self, p) ==
    ApplyHomography(Scale * p.bbox_x,
                    Scale * p.bbox_y + (Scale * p.bbox_h) \div 2, self.H)

\* GeometryUtils.point_in_polygon(Xp, Yp, polygon): polygon membership by
\* ray casting
GeometryPointInPolygon(Xp, Yp, polygon) == PointInPolygon(<<Xp, Yp>>, polygon)

\* the two nested loops, in loop order: every person row with every zone
PersonZonePairs(persons, zones) ==
    [k \in 1..(Len(persons) * Len(zones)) |->
        [p |-> persons[((k - 1) \div Len(zones)) + 1],
         z |-> zones[((k - 1) % Len(zones)) + 1]]]

\* the iterations that pass the inside test
ZoneHits(self, persons) ==
    SelectSeq(PersonZonePairs(persons, self.zones),
              LAMBDA h : LET pt == ProjectedPoint(self, h.p)
                         IN  GeometryPointInPolygon(pt[1], pt[2], h.z.polygon))

\* the distinct values of a sequence, in order of first appearance
RECURSIVE Distinct(_, _)
Distinct(seen, q) ==
    IF q = <<>> THEN seen
    ELSE Distinct(IF Head(q) \in Range(seen) THEN seen ELSE Append(seen, Head(q)),
                  Tail(q))

\* the values of a dict
Values(d) == {d[k] : k \in DOMAIN d}

\* the (track, zone) pairs of the iterations that pass the inside test
ZonePairs(hits) ==
    {<<hits[k].p.track_id, hits[k].z.id>> : k \in 1..Len(hits)}

\* the memory of first entries after the window
FirstEntryTimeOverwritten(self, pairs, timestamp) ==
    [pr \in pairs |-> timestamp] @@ self._first_entry_time
FirstEntryTime(self, pairs, timestamp) ==
    [pr \in pairs \ DOMAIN self._first_entry_time |-> timestamp]
        @@ self._first_entry_time

\* the memory of last exits after the window
LastExitTime(self, pairs, timestamp) ==
    [pr \in pairs |-> timestamp] @@ self._last_exit_time

\* the keys "zone_type_<type>_count" and "zone_risk_<level>_count" of the
\* row, in order of first appearance
ZoneTypeKeys(hits) ==
    LET types == Distinct(<<>>, [k \in 1..Len(hits) |-> hits[k].z.type])
    IN  [k \in 1..Len(types) |-> "zone_type_" \o types[k] \o "_count"]

ZoneRiskKeys(hits) ==
    LET risks == Distinct(<<>>, [k \in 1..Len(hits) |-> hits[k].z.risk_level])
    IN  [k \in 1..Len(risks) |-> "zone_risk_" \o risks[k] \o "_count"]

\* the row of a window, from its hits, its pairs and the two memories
ZoneRow(self, persons, hits, pairs, first, last, type_keys, risk_keys) ==
    LET in_zone == {pr[1] : pr \in pairs}
        high    == {self.zones[k].id : k \in {j \in 1..Len(self.zones) :
                                            self.zones[j].risk_level = "HIGH"}}
        core ==
            [num_persons_in_zone |-> Num(Cardinality(in_zone)),
             time_in_zone |->
                 Num((Scale * self.window_duration * Len(hits)) \div Len(persons)),
             multiple_zone_exposure |->
                 Num(Cardinality({t \in in_zone :
                        Cardinality({pr \in pairs : pr[1] = t}) > 1})),
             num_people_in_high_risk_zone |->
                 Num(Cardinality({pr \in pairs : pr[2] \in high})),
             proportion_time_in_high_risk_zone |->
                 Num(IF Len(hits) > 0
                     THEN (Scale * Len(SelectSeq(hits, LAMBDA h : h.z.id \in high)))
                              \div Len(hits)
                     ELSE 0),
             zone_entry_exit_events |->
                 Num(Cardinality(pairs \ DOMAIN self._first_entry_time)),
             first_entry_time |->
                 IF DOMAIN first # {} THEN Num(Min(Values(first))) ELSE NoneCell,
             last_exit_time |->
                 IF DOMAIN last # {} THEN Num(Max(Values(last))) ELSE NoneCell]
        type_counts ==
            [k \in Range(type_keys) |->
                Num(Len(SelectSeq(hits, LAMBDA h :
                        "zone_type_" \o h.z.type \o "_count" = k)))]
        risk_counts ==
            [k \in Range(risk_keys) |->
                Num(Len(SelectSeq(hits, LAMBDA h :
                        "zone_risk_" \o h.z.risk_level \o "_count" = k)))]
    IN  Dict(ZoneKeys \o type_keys \o risk_keys,
             core @@ type_counts @@ risk_counts)

\* the instance and the row, from the hits and the pairs of the window
ZoneExtractHits(self, persons, hits, pairs) ==
    [self |-> [self EXCEPT
                 !._first_entry_time =
                     FirstEntryTime(self, pairs, persons[1].timestamp),
                 !._last_exit_time =
                     LastExitTime(self, pairs, persons[1].timestamp)],
     row  |-> ZoneRow(self, persons, hits, pairs,
                      FirstEntryTime(self, pairs, persons[1].timestamp),
                      LastExitTime(self, pairs, persons[1].timestamp),
                      ZoneTypeKeys(hits), ZoneRiskKeys(hits))]

\* ZoneFeatures.extract on a window with zones, a homography and persons
ZoneExtractPersons(self, persons) ==
    ZoneExtractHits(self, persons, ZoneHits(self, persons),
                    ZonePairs(ZoneHits(self, persons)))

\* ZoneFeatures.extract: the new instance and the row
ZoneExtract(self, df) ==
    IF df = <<>> \/ self.zones = <<>> \/ self.H = NoHomography
       \/ Persons(df) = <<>>
    THEN [self |-> self, row |-> ZoneEmptyFeatures]
    ELSE ZoneExtractPersons(self, Persons(df))

----------------------------------------------------------------------------
(* One ZoneFeatures instance, called on arbitrary windows *)

\* two HIGH-risk zones that overlap for 2.5 <= x <= 4; the first one holds
\* the origin of the plane
ZoneA ==
    Zone(1, "traffic", "HIGH",
         <<<<0 - 2 * Scale, 0 - 2 * Scale>>, <<4 * Scale, 0 - 2 * Scale>>,
           <<4 * Scale, 4 * Scale>>, <<0 - 2 * Scale, 4 * Scale>>>>)

ZoneB ==
    Zone(2, "height", "HIGH",
         <<<<(5 * Scale) \div 2, 0 - 2 * Scale>>, <<6 * Scale, 0 - 2 * Scale>>,
           <<6 * Scale, 4 * Scale>>, <<(5 * Scale) \div 2, 4 * Scale>>>>)

\* a homography whose third homogeneous coordinate is x - 2: zero for the
\* points of abscissa 2, and 1 for the points of abscissa 3
VanishingAtTwo == <<<<1, 0, 0>>, <<0, 1, 0>>, <<1, 0, 0 - 2>>>>

\* the instances of the zone runs: without zones, without homography, with
\* the identity and with a homography that degenerates on some points
ZoneInstances ==
    {ZoneNew(<<>>, Identity, 2),
     ZoneNew(<<ZoneA, ZoneB>>, NoHomography, 2),
     ZoneNew(<<ZoneA, ZoneB>>, Identity, 2),
     ZoneNew(<<ZoneA, ZoneB>>, VanishingAtTwo, 2)}

\* the detections the windows of the zone runs are made of: three persons
\* whose projected points have abscissa 1, 3 and 2, and a machine
ZoneDetections ==
    {Det(0, "person", 1, 1, 0, 2, 2), Det(1, "person", 1, 1, 0, 2, 2),
     Det(0, "person", 2, 3, 0, 2, 2), Det(1, "person", 3, 2, 0, 2, 2),
     Det(0, "excavator", 9, 1, 0, 2, 2)}

\* the windows of the zone runs: rows in the order of a table read by
\* timestamp, then track
ZoneWindows ==
    {w \in SeqsUpTo(ZoneDetections, MaxZoneRows) :
        \A j \in 1..(Len(w) - 1) :
            \/ w[j].timestamp < w[j + 1].timestamp
            \/ /\ w[j].timestamp = w[j + 1].timestamp
               /\ w[j].track_id <= w[j + 1].track_id}

\* one call of ZoneFeatures.extract
Zone_Extract ==
    /\ zone_total.calls < MaxZoneCalls
    /\ \E df \in ZoneWindows :
          /\ zone' = ZoneExtract(zone, df).self
          /\ zone_call' = <<[df |-> df, before |-> zone,
                             row |-> ZoneExtract(zone, df).row]>>
          /\ zone_total' =
                [calls  |-> zone_total.calls + 1,
                 events |-> zone_total.events
                     + ZoneExtract(zone, df).row.cells["zone_entry_exit_events"].val]

InitZoneInstance ==
    /\ zone \in ZoneInstances
    /\ zone_call = <<>>
    /\ zone_total = [calls |-> 0, events |-> 0]

----------------------------------------------------------------------------
(* Claims on ZoneFeatures *)

\* C21: each (track, zone) pair adds 1 to zone_entry_exit_events in exactly
\* one call, the first that sees it: the events returned so far add up to
\* the number of pairs in memory; a call keeps every pair it found in
\* memory with its first-seen timestamp; the first-seen and the last-seen
\* maps have the same keys.
C21_EachPairEntersOnce ==
    /\ zone_total.events = Cardinality(DOMAIN zone._first_entry_time)
    /\ DOMAIN zone._first_entry_time = DOMAIN zone._last_exit_time
    /\ \A n \in 1..Len(zone_call) :
          \A pr \in DOMAIN zone_call[n].before._first_entry_time :
              /\ pr \in DOMAIN zone._first_entry_time
              /\ zone._first_entry_time[pr]
                     = zone_call[n].before._first_entry_time[pr]

\* two calls: the second one sees again, at time 1, a pair first seen at
\* time 0, and a new pair
C21_Witness ==
    /\ zone_total.calls = 2
    /\ zone_total.events >= 2
    /\ <<1, 1>> \in DOMAIN zone_call[1].before._first_entry_time
    /\ zone._first_entry_time[<<1, 1>>] = 0
    /\ zone._last_exit_time[<<1, 1>>] = 1
    /\ <<3, 1>> \notin DOMAIN zone_call[1].before._first_entry_time
    /\ <<3, 1>> \in DOMAIN zone._first_entry_time

\* the third homogeneous coordinate of the projected point of a person row
\* is zero
ZeroDenominator(self, p) ==
    MatVec(self.H, Scale * p.bbox_x,
           Scale * p.bbox_y + (Scale * p.bbox_h) \div 2)[3] = 0

\* the input of a call is one of the empty-input states
EmptyInput(self, df) ==
    df = <<>> \/ self.zones = <<>> \/ self.H = NoHomography
    \/ Persons(df) = <<>>

\* the hits of a window, those of the persons with a zero denominator left out
HitsOfProjectedPersons(self, persons) ==
    SelectSeq(ZoneHits(self, persons),
              LAMBDA h : ~ZeroDenominator(self, h.p))

\* C22: a person whose projection has a zero denominator is skipped: the row
\* and the memory of the call are those its other persons give, even when a
\* zone holds the origin of the plane.
C22_ZeroDenominatorPersonIsSkipped ==
    \A n \in 1..Len(zone_call) :
        LET c == zone_call[n]
        IN  ~EmptyInput(c.before, c.df) =>
               /\ zone = ZoneExtractHits(c.before, Persons(c.df),
                             HitsOfProjectedPersons(c.before, Persons(c.df)),
                             ZonePairs(HitsOfProjectedPersons(c.before,
                                                              Persons(c.df)))).self
               /\ c.row = ZoneExtractHits(c.before, Persons(c.df),
                             HitsOfProjectedPersons(c.before, Persons(c.df)),
                             ZonePairs(HitsOfProjectedPersons(c.before,
                                                              Persons(c.df)))).row

\* C23: in an empty-input state the zone extractor returns a row whose eight
\* fields all hold a defined value, and leaves its memory unchanged.
C23_EmptyInputRowHasNoMissingValue ==
    \A n \in 1..Len(zone_call) :
        LET c == zone_call[n]
        IN  EmptyInput(c.before, c.df) =>
               /\ zone = c.before
               /\ c.row.keys = ZoneKeys
               /\ \A k \in Range(ZoneKeys) : ~IsMissing(c.row.cells[k])

\* C24: num_people_in_high_risk_zone never exceeds num_persons_in_zone.
C24_HighRiskPersonsAreAmongPersonsInZone ==
    \A n \in 1..Len(zone_call) :
        zone_call[n].row.cells["num_people_in_high_risk_zone"].val
            <= zone_call[n].row.cells["num_persons_in_zone"].val

----------------------------------------------------------------------------
(* ML_FEATURE_COLUMNS *)

ML_FEATURE_COLUMNS ==
    <<"avg_num_persons", "max_num_persons", "unique_person_tracks",
      "person_density", "person_presence_ratio",
      "avg_epi_compliance", "helmet_compliance_ratio", "vest_compliance_ratio",
      "num_no_helmet_events", "num_no_vest_events",
      "num_machines_avg", "machine_presence_ratio", "unique_machine_tracks",
      "co_presence_person_machine",
      "dangerous_proximity_frames", "min_person_machine_distance",
      "avg_person_speed", "std_person_speed", "sudden_stop_events",
      "erratic_motion_score", "direction_variance",
      "num_persons_in_zone", "num_people_in_high_risk_zone",
      "proportion_time_in_high_risk_zone", "multiple_zone_exposure",
      "avg_person_height", "time_near_machine", "num_machine_interactions",
      "motion_consistency", "activity_persistence_score">>

----------------------------------------------------------------------------
(* extract_features_pipeline *)

\* max_windows = None
NoLimit == 0 - 1

\* the value of "window_index" in the row of the window enumerate numbers n
RowIndexByEmitted(n, rows) == Len(rows)
RowIndex(n, rows) == n

\* the window metadata of a row
Metadata(n, rows, window_df) ==
    Cells(MetadataKeys,
          [window_index |-> RowIndex(n, rows),
           window_start |-> Min(Timestamps(window_df)),
           window_end |-> Max(Timestamps(window_df)),
           camera_id |-> window_df[1].camera_id,
           num_detections |-> Len(window_df)])

\* the columns of pd.DataFrame(rows): the keys in order of first appearance
RECURSIVE ColumnsOf(_, _)
ColumnsOf(columns, rows) ==
    IF rows = <<>> THEN columns
    ELSE ColumnsOf(columns \o SelectSeq(Head(rows).keys,
                                        LAMBDA k : k \notin Range(columns)),
                   Tail(rows))

\* pd.DataFrame(all_rows): a row without a key holds NaN there
DataFrame(rows) ==
    LET columns == ColumnsOf(<<>>, rows)
    IN  [columns |-> columns,
         rows |-> [j \in 1..Len(rows) |->
                      [c \in Range(columns) |->
                          IF c \in Range(rows[j].keys)
                          THEN rows[j].cells[c] ELSE NaN]]]

\* .fillna(0) on one cell
FillNaKeep(cell) == cell
FillNa(cell) == IF IsMissing(cell) THEN Num(0) ELSE cell

\* df.reindex(columns = columns).fillna(0); the columns of the result are
\* kept as the ordered list
ReindexFillNa(df, columns) ==
    [columns |-> columns,
     rows |-> [j \in 1..Len(df.rows) |->
                  [c \in Range(columns) |->
                      FillNa(IF c \in Range(df.columns) THEN df.rows[j][c] ELSE NaN)]]]

\* the second table of a run whose first table is df
MLTable(df) ==
    IF df.rows = <<>> THEN df ELSE ReindexFillNa(df, ML_FEATURE_COLUMNS)

EmptyTable == [columns |-> <<>>, rows |-> <<>>]

\* max_windows is not None and i >= max_windows
ReachedMaxWindowsAfter(n) == cfg.max_windows # NoLimit /\ n > cfg.max_windows
ReachedMaxWindows(n) == cfg.max_windows # NoLimit /\ n >= cfg.max_windows

\* the parameters of ActivityTransitionFeatures.extract besides self, none
\* of which has a default
TransitionExtractParameters == {"current_features"}

\* the keywords of the pipeline's call of transition_extractor.extract
TransitionCallKeywords == {"current_row", "history"}

\* a call by keywords binds: every keyword names a parameter and every
\* parameter without default is given; otherwise the call raises TypeError
CallBinds(parameters, keywords) ==
    keywords \subseteq parameters /\ parameters \subseteq keywords

\* the extractor instance a call of extract_features_pipeline works on is
\* the one it is passed, as the caller's previous calls left it
InstanceAtCallFresh(passed, fresh) == fresh
InstanceAtCall(passed, fresh) == passed

\* the record of a call that ended: how, with which rows, and the instances
Ended(outcome, rows, e, st, tr, z) ==
    [outcome |-> outcome, rows |-> rows, epi |-> e, stab |-> st, trans |-> tr,
     zone |-> z]

\* the for loop is entered: the generator runs up to its first yield
Pipeline_Start ==
    /\ pipe_pc = "start"
    /\ Generate_Load
    /\ pipe_pc' = "loop"
    /\ UNCHANGED <<cfg, i, all_rows, previous_rows, calls, df_all_features,
                   df_ml_features, runs, epiVars, stabVars, transVars,
                   zoneVars>>

\* the generator yields window i and max_windows stops the loop
Pipeline_Break ==
    /\ pipe_pc = "loop"
    /\ Generate_Yield
    /\ ReachedMaxWindows(i)
    /\ pipe_pc' = "build"
    /\ UNCHANGED <<cfg, i, all_rows, previous_rows, calls, df_all_features,
                   df_ml_features, runs, epiVars, stabVars, transVars,
                   zoneVars>>

\* the generator yields window i, which holds no detection: continue
Pipeline_SkipEmpty ==
    /\ pipe_pc = "loop"
    /\ Generate_Yield
    /\ ~ReachedMaxWindows(i)
    /\ WindowSlice(df_all, current_start, current_start + window_duration) = <<>>
    /\ i' = i + 1
    /\ UNCHANGED <<cfg, pipe_pc, all_rows, previous_rows, calls,
                   df_all_features, df_ml_features, runs, epiVars, stabVars,
                   transVars, zoneVars>>

\* the extract calls of one loop body, in call order
BodyCalls(n) ==
    LET Call(name) == [extractor |-> name, window_index |-> n]
    IN  <<Call("human"), Call("epi"), Call("machine"), Call("proximity"),
          Call("temporal"), Call("zone")>>
        \o (IF cfg.stability THEN <<Call("stability")>> ELSE <<>>)
        \o (IF cfg.transition THEN <<Call("transition")>> ELSE <<>>)

\* the generator yields window i, which holds detections: the loop body.
\* The call of the transition extractor raises TypeError when its keywords
\* do not bind, and the run ends there without a result.
Pipeline_Window ==
    /\ pipe_pc = "loop"
    /\ Generate_Yield
    /\ ~ReachedMaxWindows(i)
    /\ LET window_df == WindowSlice(df_all, current_start,
                                    current_start + window_duration)
           e == EPIExtract(epi, window_df)
           z == ZoneExtract(zone, window_df)
       IN  /\ window_df # <<>>
           /\ epi' = e.self
           /\ epi_out' = e.row
           /\ UNCHANGED <<epi_log, epi_lone>>
           /\ zone' = z.self
           /\ UNCHANGED <<zone_call, zone_total>>
           /\ calls' = calls \o BodyCalls(i)
           /\ \E temporal \in TemporalRows(window_df) :
                 LET row6 ==
                         Update(Update(Update(Update(Update(Update(
                             Metadata(i, all_rows, window_df),
                             Cells(HumanRowKeys(window_df),
                                   HumanExtract(human, window_df))),
                             Cells(EPIKeys, e.row)),
                             Untracked(MachineKeys)),
                             Untracked(ProximityKeys)),
                             temporal),
                             z.row)
                     st   == StabilityExtract(stab, Tracked(row6))
                     row7 == IF cfg.stability
                             THEN Update(row6, Cells(StabilityKeys, st.row))
                             ELSE row6
                     tr   == TransitionExtract(trans, Tracked(row7))
                     row  == IF cfg.transition
                             THEN Update(row7, Cells(TransitionKeys, tr.row))
                             ELSE row7
                     stab_after == IF cfg.stability THEN st.self ELSE stab
                 IN  /\ stab' = stab_after
                     /\ UNCHANGED <<stab_log, trans_log>>
                     /\ IF cfg.transition
                           /\ ~CallBinds(TransitionExtractParameters,
                                         TransitionCallKeywords)
                        THEN /\ pipe_pc' = "raised"
                             /\ runs' = Append(runs,
                                    Ended("raised", all_rows, e.self,
                                          stab_after, trans, z.self))
                             /\ UNCHANGED <<i, all_rows, previous_rows, trans>>
                        ELSE /\ pipe_pc' = "loop"
                             /\ i' = i + 1
                             /\ trans' = IF cfg.transition THEN tr.self ELSE trans
                             /\ previous_rows' = Append(previous_rows, row)
                             /\ all_rows' = Append(all_rows, row)
                             /\ UNCHANGED runs
    /\ UNCHANGED <<cfg, df_all_features, df_ml_features>>

\* the generator is exhausted: the loop ends
Pipeline_Exhausted ==
    /\ pipe_pc = "loop"
    /\ \/ Generate_End
       \/ gen_pc = "done" /\ UNCHANGED genVars
    /\ pipe_pc' = "build"
    /\ UNCHANGED <<cfg, i, all_rows, previous_rows, calls, df_all_features,
                   df_ml_features, runs, epiVars, stabVars, transVars,
                   zoneVars>>

\* the two tables are built and returned
Pipeline_Return ==
    /\ pipe_pc = "build"
    /\ df_all_features' = DataFrame(all_rows)
    /\ df_ml_features' = MLTable(DataFrame(all_rows))
    /\ pipe_pc' = "done"
    /\ runs' = Append(runs, Ended("returned", all_rows, epi, stab, trans, zone))
    /\ UNCHANGED <<cfg, i, all_rows, previous_rows, calls, genVars, epiVars,
                   stabVars, transVars, zoneVars>>

\* the caller calls extract_features_pipeline again, with the same sliding
\* window, the same arguments and the same extractor instances: the locals
\* and the generator are new, the instances are not touched
Pipeline_CallAgain ==
    /\ pipe_pc \in {"done", "raised"}
    /\ Len(runs) < MaxRuns
    /\ pipe_pc' = "start"
    /\ i' = 0
    /\ all_rows' = <<>>
    /\ previous_rows' = <<>>
    /\ calls' = <<>>
    /\ df_all_features' = EmptyTable
    /\ df_ml_features' = EmptyTable
    /\ gen_pc' = "start"
    /\ current_start' = 0
    /\ yielded' = <<>>
    /\ epi' = InstanceAtCall(epi, EPINew(epi.window_duration,
                                         epi.persistent_threshold))
    /\ stab' = InstanceAtCall(stab, StabilityNew(stab.history_size))
    /\ trans' = InstanceAtCall(trans, TransitionNew(trans.history_size))
    /\ UNCHANGED <<zone_call, zone_total>>
    /\ zone' = InstanceAtCall(zone, ZoneNew(zone.zones, zone.H,
                                            zone.window_duration))
    /\ UNCHANGED <<cfg, runs, window_duration, step, start_time, end_time,
                   df_all, epi_out, epi_log, epi_lone, stab_log, trans_log>>

\* the detections of the pipeline runs, in load order: person 1 without a
\* helmet at time 0, persons 1 and 2 at time 1, person 1 at time 3
PipelineDetections ==
    <<Det(0, "person", 1, 0, 0, 4, 4), Det(0, "no_hardhat", 7, 1, 1, 2, 2),
      Det(1, "person", 1, 3, 0, 4, 4), Det(1, "person", 2, 10, 0, 4, 6),
      Det(3, "person", 1, 3, 0, 4, 4)>>

\* the bulk loads of the pipeline runs: the stretches of the recording
PipelineTables ==
    {SubSeq(PipelineDetections, a, b) :
        a \in 1..(Len(PipelineDetections) + 1),
        b \in 0..Len(PipelineDetections)}

InitPipelineCall ==
    /\ cfg \in [max_windows : {NoLimit} \cup 0..MaxWindowsArg,
                stability : BOOLEAN, transition : BOOLEAN]
    /\ pipe_pc = "start"
    /\ i = 0
    /\ all_rows = <<>>
    /\ previous_rows = <<>>
    /\ calls = <<>>
    /\ df_all_features = EmptyTable
    /\ df_ml_features = EmptyTable
    /\ runs = <<>>

\* the zone source of the pipeline runs: one HIGH-risk zone, which person 1
\* is inside of at every time and person 2 is outside of
PipelineZones ==
    <<Zone(1, "traffic", "HIGH",
           <<<<0 - Scale, 0>>, <<6 * Scale, 0>>, <<6 * Scale, 4 * Scale>>,
             <<0 - Scale, 4 * Scale>>>>)>>

----------------------------------------------------------------------------
(* Claims on extract_features_pipeline *)

\* the rows of a returned table or of all_rows as window indexes
IndexOfRow(row) == row.cells["window_index"].val

\* C3: a generated window without detections gives no row and no extract
\* call, yet takes its index: every row carries the index of its own
\* generated window, which holds detections, every window before i that
\* holds detections has its row, and the window_index column of the audit
\* table is strictly increasing.
C3_EmptyWindowsConsumeTheirIndex ==
    /\ \A j \in 1..Len(all_rows) :
          LET n == IndexOfRow(all_rows[j])
          IN  /\ n + 1 <= Len(yielded)
              /\ yielded[n + 1].rows # <<>>
              /\ all_rows[j].cells["num_detections"].val = Len(yielded[n + 1].rows)
              /\ all_rows[j].cells["window_start"].val >= yielded[n + 1].start
    /\ \A j \in 2..Len(all_rows) :
          IndexOfRow(all_rows[j - 1]) < IndexOfRow(all_rows[j])
    /\ \A c \in Range(calls) : yielded[c.window_index + 1].rows # <<>>
    /\ pipe_pc # "raised" =>
          Len(all_rows) = Cardinality({k \in 1..i : yielded[k].rows # <<>>})
    /\ pipe_pc = "done" =>
          /\ Len(df_all_features.rows) = Len(all_rows)
          /\ Len(df_ml_features.rows) = Len(all_rows)
          /\ \A j \in 1..Len(all_rows) :
                df_all_features.rows[j]["window_index"] =
                    all_rows[j].cells["window_index"]

\* a returned audit table whose second row follows a gap in the indexes
C3_Witness ==
    /\ pipe_pc = "done"
    /\ Len(df_all_features.rows) >= 2
    /\ df_all_features.rows[2]["window_index"].val
          > df_all_features.rows[1]["window_index"].val + 1

\* the ML table holds, for every emitted row and every canonical column, the
\* cell of the row, or 0 where the row has no such key or a missing value
MLTableIsZeroFilled ==
    /\ df_ml_features.columns = ML_FEATURE_COLUMNS
    /\ Len(df_ml_features.rows) = Len(all_rows)
    /\ \A j \in 1..Len(all_rows) :
          /\ DOMAIN df_ml_features.rows[j] = Range(ML_FEATURE_COLUMNS)
          /\ \A c \in Range(ML_FEATURE_COLUMNS) :
                /\ df_ml_features.rows[j][c].kind \in {"num", "float"}
                /\ df_ml_features.rows[j][c] =
                      IF c \in Range(all_rows[j].keys)
                         /\ all_rows[j].cells[c].kind \in {"num", "float"}
                      THEN all_rows[j].cells[c]
                      ELSE Num(0)

\* C4 as stated: a run that emits a row returns an ML table of exactly the
\* canonical 29 columns, in the order of ML_FEATURE_COLUMNS, zero-filled.
C4_MLTableHas29Columns ==
    (pipe_pc = "done" /\ all_rows # <<>>) =>
        /\ Len(df_ml_features.columns) = 29
        /\ MLTableIsZeroFilled

\* C4 amended: a run that emits a row returns an ML table of exactly the 30
\* columns of ML_FEATURE_COLUMNS, in that order, without a missing value: a
\* column absent from a row or holding a missing value holds 0.
C4_MLTableHasTheCanonicalColumns ==
    (pipe_pc = "done" /\ all_rows # <<>>) =>
        /\ Len(df_ml_features.columns) = 30
        /\ Cardinality(Range(df_ml_features.columns)) = 30
        /\ MLTableIsZeroFilled

\* a run without the stability extractor returned two rows: the two
\* stability columns of the schema are absent from every row
C4_Witness ==
    /\ pipe_pc = "done"
    /\ ~cfg.stability
    /\ Len(all_rows) >= 2
    /\ "motion_consistency" \notin Range(df_all_features.columns)
    /\ df_ml_features.rows[1]["motion_consistency"] = Num(0)

\* C5: the ML table of every finished run has the columns of
\* ML_FEATURE_COLUMNS, runs without a row included.
C5_MLTableColumnsInEveryRun ==
    pipe_pc = "done" => df_ml_features.columns = ML_FEATURE_COLUMNS

\* C15: a run with both inter-window extractors does not raise; every
\* window with detections has its stability call followed by its transition
\* call, and every emitted row carries the three transition fields.
C15_RunWithBothInterWindowExtractorsCompletes ==
    (cfg.stability /\ cfg.transition) =>
        /\ pipe_pc # "raised"
        /\ \A k \in 1..Len(calls) :
              calls[k].extractor = "stability" =>
                  /\ k < Len(calls)
                  /\ calls[k + 1].extractor = "transition"
                  /\ calls[k + 1].window_index = calls[k].window_index
        /\ \A j \in 1..Len(all_rows) :
              Range(TransitionKeys) \subseteq Range(all_rows[j].keys)

\* the smaller of two numbers
Least(a, b) == IF a <= b THEN a ELSE b

\* C16: with max_windows = N no extract call is made for a window of index
\* N or more, every row has window_index < N, and the number of rows is the
\* number of windows with detections among the first N generated ones: at
\* most N, fewer when one of them is empty.
C16_MaxWindowsCapsGeneratedWindows ==
    cfg.max_windows # NoLimit =>
        /\ \A k \in 1..Len(calls) : calls[k].window_index < cfg.max_windows
        /\ \A j \in 1..Len(all_rows) : IndexOfRow(all_rows[j]) < cfg.max_windows
        /\ Len(all_rows) <= cfg.max_windows
        /\ pipe_pc \in {"build", "done"} =>
              Len(all_rows) =
                  Cardinality({k \in 1..Least(cfg.max_windows, Len(yielded)) :
                                  yielded[k].rows # <<>>})
        /\ pipe_pc = "done" =>
              /\ Len(df_all_features.rows) <= cfg.max_windows
              /\ Len(df_ml_features.rows) <= cfg.max_windows

\* a finished run with max_windows = 2 that emitted a single row: one of the
\* first two windows is empty, and the third generated window, which holds
\* detections, was cut off
C16_Witness ==
    /\ pipe_pc = "done"
    /\ cfg.max_windows = 2
    /\ Len(yielded) = 3
    /\ yielded[3].rows # <<>>
    /\ \E k \in 1..2 : yielded[k].rows = <<>>
    /\ Len(df_all_features.rows) = 1

\* C17: a call on instances that an earlier call has used starts from the
\* state in which that call left them: until its first extract call, the EPI
\* instance with its violation counter, the stability and transition
\* instances with their histories and the zone instance with its (track,
\* zone) memory equal what they were when the earlier call ended.
C17_SecondRunStartsFromTheStateOfTheFirst ==
    (Len(runs) >= 1 /\ calls = <<>>) =>
        LET last == runs[Len(runs)]
        IN  /\ epi = last.epi
            /\ stab = last.stab
            /\ trans = last.trans
            /\ zone = last.zone

\* two finished runs over the same input and the same instances: the first
\* row of the first run holds the neutral stability triple and the first row
\* of the second run does not, the first run left a (track, zone) pair in
\* memory and a violation counter above 0
C17_Witness ==
    /\ cfg.stability
    /\ Len(runs) = 2
    /\ runs[1].outcome = "returned" /\ runs[2].outcome = "returned"
    /\ Len(runs[1].rows) >= 1
    /\ Len(runs[2].rows) = Len(runs[1].rows)
    /\ runs[1].rows[1].cells["activity_persistence_score"] = Num(Scale \div 2)
    /\ runs[2].rows[1].cells["activity_persistence_score"] # Num(Scale \div 2)
    /\ DOMAIN runs[1].zone._first_entry_time # {}
    /\ runs[1].epi._consecutive_violation_count > 0

----------------------------------------------------------------------------
(* ProximityFeatures *)

ProximityNew(duration, pp, pm) ==
    [window_duration |-> duration, danger_distance_pp |-> pp,
     danger_distance_pm |-> pm]

\* np.hypot(dx, dy) of two pixel differences, in fixed point
Hypot(dx, dy) == Isqrt(Scale * Scale * (dx * dx + dy * dy))

\* GeometryUtils.euclidean_distance(x1, y1, x2, y2) of utils.geometry
EuclideanDistance(x1, y1, x2, y2) == Hypot(x1 - x2, y1 - y2)

\* itertools.combinations(range(1, n + 1), 2), in the order it yields them
RECURSIVE Combinations2From(_, _, _)
Combinations2From(a, b, n) ==
    IF a >= n THEN <<>>
    ELSE IF b > n THEN Combinations2From(a + 1, a + 2, n)
    ELSE <<<<a, b>>>> \o Combinations2From(a, b + 1, n)

Combinations2(n) == Combinations2From(1, 2, n)

\* the index pairs of two nested iterrows loops over n and m rows
RECURSIVE NestedRowsFrom(_, _, _, _)
NestedRowsFrom(a, b, n, m) ==
    IF a > n \/ m = 0 THEN <<>>
    ELSE IF b > m THEN NestedRowsFrom(a + 1, 1, n, m)
    ELSE <<<<a, b>>>> \o NestedRowsFrom(a, b + 1, n, m)

NestedRows(n, m) == NestedRowsFrom(1, 1, n, m)

\* df[df["object_class"].isin(["vehicle", "machinery"])]
ProximityMachines(df) ==
    SelectSeq(df, LAMBDA d : d.object_class \in {"vehicle", "machinery"})

\* _pairwise_distances: one distance per pair of rows of the person table
PairwiseDistances(persons) ==
    LET pairs == Combinations2(Len(persons))
    IN  [k \in 1..Len(pairs) |->
            Hypot(persons[pairs[k][1]].bbox_x - persons[pairs[k][2]].bbox_x,
                  persons[pairs[k][1]].bbox_y - persons[pairs[k][2]].bbox_y)]

\* _cross_distances: one distance per (person row, machine row)
CrossDistances(persons, machines) ==
    LET pairs == NestedRows(Len(persons), Len(machines))
    IN  [k \in 1..Len(pairs) |->
            Hypot(persons[pairs[k][1]].bbox_x - machines[pairs[k][2]].bbox_x,
                  persons[pairs[k][1]].bbox_y - machines[pairs[k][2]].bbox_y)]

\* _overlap, the boxes taken as centred on (bbox_x, bbox_y); both sides of
\* every comparison are doubled
Overlap(a, b) ==
    ~ \/ 2 * a.bbox_x + a.bbox_w < 2 * b.bbox_x - b.bbox_w
      \/ 2 * a.bbox_x - a.bbox_w > 2 * b.bbox_x + b.bbox_w
      \/ 2 * a.bbox_y + a.bbox_h < 2 * b.bbox_y - b.bbox_h
      \/ 2 * a.bbox_y - a.bbox_h > 2 * b.bbox_y + b.bbox_h

\* _bbox_overlaps
BboxOverlaps(persons, machines) ==
    Cardinality({pr \in Range(NestedRows(Len(persons), Len(machines))) :
                    Overlap(persons[pr[1]], machines[pr[2]])})

\* sum(d < threshold for d in distances)
CountBelow(distances, threshold) ==
    Cardinality({k \in 1..Len(distances) : distances[k] < threshold})

\* min(list) of a non-empty list
MinOf(distances) == Min(Range(distances))

\* the number of (person row, machine row) pairs closer than danger_distance_pm
MachineInteractions(self, persons, machines) ==
    Cardinality({pr \in Range(NestedRows(Len(persons), Len(machines))) :
                    EuclideanDistance(persons[pr[1]].bbox_x, persons[pr[1]].bbox_y,
                                      machines[pr[2]].bbox_x, machines[pr[2]].bbox_y)
                        < self.danger_distance_pm})

ProximityEmptyFeatures ==
    [avg_person_person_distance |-> 0, std_person_person_distance |-> 0,
     avg_person_machine_distance |-> 0, min_person_person_distance |-> 0,
     min_person_machine_distance |-> 0, dangerous_proximity_frames |-> 0,
     bbox_overlap_person_machine |-> 0]

\* the row of a non-empty window, from its two lists of distances
ProximityRow(self, persons, machines, pp_distances, pm_distances) ==
    [avg_person_person_distance |->
        IF pp_distances # <<>> THEN Mean(pp_distances) ELSE 0,
     std_person_person_distance |->
        IF pp_distances # <<>> THEN Std(pp_distances) ELSE 0,
     avg_person_machine_distance |->
        IF pm_distances # <<>> THEN Mean(pm_distances) ELSE 0,
     min_person_person_distance |->
        IF pp_distances # <<>> THEN MinOf(pp_distances) ELSE 0,
     min_person_machine_distance |->
        IF pm_distances # <<>> THEN MinOf(pm_distances) ELSE 0,
     dangerous_proximity_frames |->
        CountBelow(pp_distances, self.danger_distance_pp)
            + CountBelow(pm_distances, self.danger_distance_pm),
     bbox_overlap_person_machine |-> BboxOverlaps(persons, machines),
     time_near_machine |->
        MachineInteractions(self, persons, machines) * self.window_duration * Scale,
     num_machine_interactions |-> MachineInteractions(self, persons, machines)]

\* ProximityFeatures.extract
ProximityExtract(self, df) ==
    IF df = <<>> THEN ProximityEmptyFeatures
    ELSE ProximityRow(self, Persons(df), ProximityMachines(df),
                      PairwiseDistances(Persons(df)),
                      CrossDistances(Persons(df), ProximityMachines(df)))

----------------------------------------------------------------------------
(* One ProximityFeatures instance, called on arbitrary windows *)

\* the detections the windows of the proximity runs are made of: person 1 at
\* two frames, 5 pixels apart, person 2, and a machine
ProxDetections ==
    {Det(0, "person", 1, 0, 0, 2, 2), Det(1, "person", 1, 3, 4, 2, 2),
     Det(0, "person", 2, 0, 3, 2, 2), Det(0, "machinery", 5, 6, 0, 4, 4)}

ProxWindows == SeqsUpTo(ProxDetections, MaxProxRows)

\* the instance with the default thresholds, and one with thresholds of a
\* few pixels
ProxInstances ==
    {ProximityNew(1, 100 * Scale, 150 * Scale),
     ProximityNew(2, 4 * Scale, 5 * Scale)}

\* one call of ProximityFeatures.extract
Proximity_Extract ==
    /\ \E df \in ProxWindows :
          prox_call' = <<[df |-> df, out |-> ProximityExtract(prox, df)]>>
    /\ UNCHANGED prox

InitProximityInstance ==
    /\ prox \in ProxInstances
    /\ prox_call = <<>>

----------------------------------------------------------------------------
(* Claims on ProximityFeatures *)

\* the windows with detections of exactly one person track and no machine
SinglePersonTrack(df) ==
    /\ ProximityMachines(df) = <<>>
    /\ Cardinality({Persons(df)[k].track_id : k \in 1..Len(Persons(df))}) = 1

\* C29: a window that contains detections of a single person track, at any
\* number of timestamps, and no machine yields no person-person distance:
\* dangerous_proximity_frames = 0 and min_person_person_distance = 0.0.
C29_OneTrackYieldsNoPersonPersonDistance ==
    \A n \in 1..Len(prox_call) :
        SinglePersonTrack(prox_call[n].df) =>
            /\ PairwiseDistances(Persons(prox_call[n].df)) = <<>>
            /\ prox_call[n].out.dangerous_proximity_frames = 0
            /\ prox_call[n].out.min_person_person_distance = 0

----------------------------------------------------------------------------
(* Tracker *)

TrackerNew(max_distance, max_age) ==
    [next_id |-> 1, tracks |-> <<>>, max_distance |-> max_distance,
     max_age |-> max_age]

\* _centroid, both coordinates doubled: (x1 + x2, y1 + y2)
Centroid2(box_xyxy) == <<box_xyxy[1] + box_xyxy[3], box_xyxy[2] + box_xyxy[4]>>

\* np.linalg.norm(a - b) of two centroids held doubled, in fixed point
CentroidDistance(a, b) ==
    Isqrt(Scale * Scale * ((a[1] - b[1]) * (a[1] - b[1])
                             + (a[2] - b[2]) * (a[2] - b[2]))) \div 2

\* the tracks the loop leaves in self.tracks: those not older than max_age
KeptTracks(self, frame) ==
    LET kept == {id \in DOMAIN self.tracks :
                    ~(frame - self.tracks[id].last_seen > self.max_age)}
    IN  [id \in kept |-> self.tracks[id]]

\* the kept tracks of the class that are closer than max_distance
Matching(self, tracks, centroid, class_name) ==
    {id \in DOMAIN tracks :
        /\ tracks[id].class = class_name
        /\ CentroidDistance(centroid, tracks[id].centroid) < self.max_distance}

\* best_id of a non-empty set of matching tracks: the loop visits the keys in
\* the order they were inserted, which is the order of the ids, and replaces
\* its choice only by a strictly closer track
BestId(tracks, matching, centroid) ==
    CHOOSE id \in matching :
        \A other \in matching :
            LET d == CentroidDistance(centroid, tracks[id].centroid)
                e == CentroidDistance(centroid, tracks[other].centroid)
            IN  d < e \/ (d = e /\ id <= other)

\* the outcome of a call that found best_id
TrackMatched(self, tracks, best_id, centroid, frame) ==
    [self |-> [self EXCEPT !.tracks =
                  [id \in DOMAIN tracks |->
                      IF id = best_id
                      THEN [tracks[id] EXCEPT !.centroid = centroid,
                                              !.last_seen = frame]
                      ELSE tracks[id]]],
     out |-> best_id, new |-> FALSE]

\* the outcome of a call that found no track: a new one under next_id
TrackCreated(self, tracks, centroid, class_name, frame) ==
    [self |-> [self EXCEPT !.tracks =
                  [id \in DOMAIN tracks \cup {self.next_id} |->
                      IF id = self.next_id
                      THEN [centroid |-> centroid, class |-> class_name,
                            last_seen |-> frame]
                      ELSE tracks[id]],
                           !.next_id = self.next_id + 1],
     out |-> self.next_id, new |-> TRUE]

\* the call once the stale tracks are deleted and the matching ones known
TrackAmong(self, tracks, matching, centroid, class_name, frame) ==
    IF matching # {}
    THEN TrackMatched(self, tracks, BestId(tracks, matching, centroid),
                      centroid, frame)
    ELSE TrackCreated(self, tracks, centroid, class_name, frame)

\* Tracker.track
TrackerTrack(self, box_xyxy, class_name, frame) ==
    TrackAmong(self, KeptTracks(self, frame),
               Matching(self, KeptTracks(self, frame), Centroid2(box_xyxy),
                        class_name),
               Centroid2(box_xyxy), class_name, frame)

----------------------------------------------------------------------------
(* One Tracker instance fed by the frame loop of run_video *)

\* the boxes of the accepted detections: two whose centroids are 2 pixels
\* apart and one 8 pixels away from the first
TrackBoxes == {<<0, 0, 2, 2>>, <<2, 0, 4, 2>>, <<8, 0, 10, 2>>}

TrackDetections ==
    {<<box, "person">> : box \in TrackBoxes} \cup {<<<<0, 0, 2, 2>>, "machinery">>}

\* Tracker() as run_video builds it, and an instance with a short reach and
\* a short memory
TrackerInstances == {TrackerNew(50 * Scale, 10), TrackerNew(3 * Scale, 1)}

\* an accepted detection of the current frame is handed to tracker.track
Video_Track ==
    /\ Len(frame_ids) < MaxFrameDetections
    /\ \E det \in TrackDetections :
          LET r == TrackerTrack(tracker, det[1], det[2], frame_idx)
          IN  /\ tracker' = r.self
              /\ frame_ids' = Append(frame_ids, r.out)
              /\ issued' = IF r.out > issued THEN r.out ELSE issued
              /\ track_call' = <<[box_xyxy |-> det[1], class_name |-> det[2],
                                  frame_idx |-> frame_idx, out |-> r.out,
                                  new |-> r.new, issued_before |-> issued]>>
    /\ UNCHANGED frame_idx

\* the loop moves on to the next frame
Video_NextFrame ==
    /\ frame_idx < MaxFrame
    /\ frame_idx' = frame_idx + 1
    /\ frame_ids' = <<>>
    /\ UNCHANGED <<tracker, issued, track_call>>

InitTrackerInstance ==
    /\ tracker \in TrackerInstances
    /\ frame_idx = 0 /\ frame_ids = <<>> /\ issued = 0 /\ track_call = <<>>

----------------------------------------------------------------------------
(* Claims on Tracker.track *)

\* the detections of the current frame all hold different track ids
FrameIdsAreDistinct ==
    \A j, k \in 1..Len(frame_ids) : j # k => frame_ids[j] # frame_ids[k]

\* the id of a new track is greater than every id returned before
NewIdsAreFresh ==
    \A n \in 1..Len(track_call) :
        track_call[n].new => track_call[n].out > track_call[n].issued_before

\* C30: two distinct detections submitted with the same frame index never
\* receive the same track id, and the id issued for a new track is strictly
\* greater than every id issued before.
C30_IdsAreDistinctInAFrameAndNeverReused ==
    FrameIdsAreDistinct /\ NewIdsAreFresh

----------------------------------------------------------------------------
(* Specifications: one per component, the other components stay idle *)

GenIdle ==
    /\ window_duration = 1 /\ step = 1 /\ start_time = 0 /\ end_time = 0
    /\ df_all = <<>> /\ current_start = 0 /\ gen_pc = "done" /\ yielded = <<>>

EpiIdle ==
    /\ epi = EPINew(1, 3)
    /\ epi_out = EPIEmptyFeatures
    /\ epi_log = <<>>
    /\ epi_lone = {}

PipeIdle ==
    /\ cfg = [max_windows |-> NoLimit, stability |-> FALSE, transition |-> FALSE]
    /\ pipe_pc = "done" /\ i = 0 /\ all_rows = <<>> /\ previous_rows = <<>>
    /\ calls = <<>> /\ df_all_features = EmptyTable
    /\ df_ml_features = EmptyTable /\ runs = <<>>

StabIdle == stab = StabilityNew(5) /\ stab_log = <<>>

TransIdle == trans = TransitionNew(5) /\ trans_log = <<>>

ZoneIdle ==
    /\ zone = ZoneNew(<<>>, NoHomography, 1)
    /\ zone_call = <<>>
    /\ zone_total = [calls |-> 0, events |-> 0]

HumanIdle == human = HumanNew(10, 10) /\ human_call = <<>>

SpatialIdle == hom_call = <<>> /\ poly_call = <<>>

ProxIdle == prox = ProximityNew(1, 100 * Scale, 150 * Scale) /\ prox_call = <<>>

TrackIdle ==
    /\ tracker = TrackerNew(50 * Scale, 10)
    /\ frame_idx = 0 /\ frame_ids = <<>> /\ issued = 0 /\ track_call = <<>>

\* the window generator alone
InitWindow ==
    /\ ProxIdle /\ TrackIdle
    /\ InitGen(WindowTables) /\ EpiIdle /\ StabIdle /\ TransIdle /\ PipeIdle
    /\ ZoneIdle /\ HumanIdle /\ SpatialIdle

NextWindow ==
    \/ Generate_Load /\ UNCHANGED <<epiVars, stabVars, transVars, pipeVars,
                                   zoneVars, humanVars, homVars, polyVars,
            proxVars, trackVars>>
    \/ Generate_Yield /\ UNCHANGED <<epiVars, stabVars, transVars, pipeVars,
                                    zoneVars, humanVars, homVars, polyVars,
            proxVars, trackVars>>
    \/ Generate_End /\ UNCHANGED <<epiVars, stabVars, transVars, pipeVars,
                                  zoneVars, humanVars, homVars, polyVars,
            proxVars, trackVars>>

SpecWindow == InitWindow /\ [][NextWindow]_vars

\* one EPIFeatures instance, called on arbitrary windows
InitEPI ==
    /\ ProxIdle /\ TrackIdle
    /\ GenIdle /\ InitEPIInstance /\ StabIdle /\ TransIdle /\ PipeIdle
    /\ ZoneIdle /\ HumanIdle /\ SpatialIdle

NextEPI ==
    EPI_Extract /\ UNCHANGED <<genVars, stabVars, transVars, pipeVars,
                               zoneVars, humanVars, homVars, polyVars,
            proxVars, trackVars>>

SpecEPI == InitEPI /\ [][NextEPI]_vars

\* one ActivityStabilityFeatures instance, called on arbitrary rows
InitStability ==
    /\ ProxIdle /\ TrackIdle
    /\ GenIdle /\ EpiIdle /\ InitStabilityInstance /\ TransIdle /\ PipeIdle
    /\ ZoneIdle /\ HumanIdle /\ SpatialIdle

NextStability ==
    Stability_Extract /\ UNCHANGED <<genVars, epiVars, transVars, pipeVars,
                                     zoneVars, humanVars, homVars, polyVars,
            proxVars, trackVars>>

SpecStability == InitStability /\ [][NextStability]_vars

\* one ActivityTransitionFeatures instance, called on arbitrary rows
InitTransition ==
    /\ ProxIdle /\ TrackIdle
    /\ GenIdle /\ EpiIdle /\ StabIdle /\ InitTransitionInstance /\ PipeIdle
    /\ ZoneIdle /\ HumanIdle /\ SpatialIdle

NextTransition ==
    Transition_Extract /\ UNCHANGED <<genVars, epiVars, stabVars, pipeVars,
                                      zoneVars, humanVars, homVars, polyVars,
            proxVars, trackVars>>

SpecTransition == InitTransition /\ [][NextTransition]_vars

\* one HumanPresenceFeatures instance, called on arbitrary windows
InitHuman ==
    /\ ProxIdle /\ TrackIdle
    /\ GenIdle /\ EpiIdle /\ StabIdle /\ TransIdle /\ PipeIdle
    /\ ZoneIdle /\ InitHumanInstance /\ SpatialIdle

NextHuman ==
    Human_Extract /\ UNCHANGED <<genVars, epiVars, stabVars, transVars,
                                 pipeVars, zoneVars, homVars, polyVars,
            proxVars, trackVars>>

SpecHuman == InitHuman /\ [][NextHuman]_vars

\* apply_homography, called on arbitrary points and matrices
InitHomographyCalls ==
    /\ ProxIdle /\ TrackIdle
    /\ GenIdle /\ EpiIdle /\ StabIdle /\ TransIdle /\ PipeIdle /\ ZoneIdle
    /\ HumanIdle /\ InitHomography /\ poly_call = <<>>

NextHomography ==
    Apply_Homography /\ UNCHANGED <<genVars, epiVars, stabVars, transVars,
                                    pipeVars, zoneVars, humanVars, polyVars,
            proxVars, trackVars>>

SpecHomography == InitHomographyCalls /\ [][NextHomography]_vars

\* point_in_polygon, called on arbitrary points and polygons
InitPolygonCalls ==
    /\ ProxIdle /\ TrackIdle
    /\ GenIdle /\ EpiIdle /\ StabIdle /\ TransIdle /\ PipeIdle /\ ZoneIdle
    /\ HumanIdle /\ hom_call = <<>> /\ InitPolygon

NextPolygon ==
    Point_In_Polygon /\ UNCHANGED <<genVars, epiVars, stabVars, transVars,
                                    pipeVars, zoneVars, humanVars, homVars,
            proxVars, trackVars>>

SpecPolygon == InitPolygonCalls /\ [][NextPolygon]_vars

InitInterWindow ==
    /\ ProxIdle /\ TrackIdle
    /\ GenIdle /\ EpiIdle /\ InitInterWindowInstances /\ PipeIdle
    /\ ZoneIdle /\ HumanIdle /\ SpatialIdle

NextInterWindow ==
    InterWindow_Extract /\ UNCHANGED <<genVars, epiVars, pipeVars, zoneVars,
                                       humanVars, homVars, polyVars,
            proxVars, trackVars>>

SpecInterWindow == InitInterWindow /\ [][NextInterWindow]_vars

InitZone ==
    /\ ProxIdle /\ TrackIdle
    /\ GenIdle /\ EpiIdle /\ StabIdle /\ TransIdle /\ PipeIdle
    /\ InitZoneInstance /\ HumanIdle /\ SpatialIdle

NextZone ==
    Zone_Extract /\ UNCHANGED <<genVars, epiVars, stabVars, transVars,
                                pipeVars, humanVars, homVars, polyVars,
            proxVars, trackVars>>

SpecZone == InitZone /\ [][NextZone]_vars

\* one ProximityFeatures instance, called on arbitrary windows
InitProximity ==
    /\ InitProximityInstance /\ TrackIdle
    /\ GenIdle /\ EpiIdle /\ StabIdle /\ TransIdle /\ PipeIdle
    /\ ZoneIdle /\ HumanIdle /\ SpatialIdle

NextProximity ==
    Proximity_Extract /\ UNCHANGED <<genVars, epiVars, stabVars, transVars,
                                     pipeVars, zoneVars, humanVars, homVars,
                                     polyVars, trackVars>>

SpecProximity == InitProximity /\ [][NextProximity]_vars

\* one Tracker instance, fed the accepted detections of successive frames
InitTracker ==
    /\ ProxIdle /\ InitTrackerInstance
    /\ GenIdle /\ EpiIdle /\ StabIdle /\ TransIdle /\ PipeIdle
    /\ ZoneIdle /\ HumanIdle /\ SpatialIdle

NextTracker ==
    \/ Video_Track /\ UNCHANGED <<genVars, epiVars, stabVars, transVars,
                                  pipeVars, zoneVars, humanVars, homVars,
                                  polyVars, proxVars>>
    \/ Video_NextFrame /\ UNCHANGED <<genVars, epiVars, stabVars, transVars,
                                      pipeVars, zoneVars, humanVars, homVars,
                                      polyVars, proxVars>>

SpecTracker == InitTracker /\ [][NextTracker]_vars

\* one call of extract_features_pipeline with fresh extractor instances
Init ==
    /\ ProxIdle /\ TrackIdle
    /\ InitGen(PipelineTables)
    /\ epi = EPINew(window_duration, 3) /\ epi_out = EPIEmptyFeatures
    /\ epi_log = <<>> /\ epi_lone = {}
    /\ StabIdle
    /\ TransIdle
    /\ InitPipelineCall
    /\ zone = ZoneNew(PipelineZones, Identity, window_duration)
    /\ zone_call = <<>>
    /\ zone_total = [calls |-> 0, events |-> 0]
    /\ HumanIdle
    /\ SpatialIdle

Next ==
    \/ Pipeline_Start /\ UNCHANGED <<humanVars, homVars, polyVars,
            proxVars, trackVars>>
    \/ Pipeline_Break /\ UNCHANGED <<humanVars, homVars, polyVars,
            proxVars, trackVars>>
    \/ Pipeline_SkipEmpty /\ UNCHANGED <<humanVars, homVars, polyVars,
            proxVars, trackVars>>
    \/ Pipeline_Window /\ UNCHANGED <<humanVars, homVars, polyVars,
            proxVars, trackVars>>
    \/ Pipeline_Exhausted /\ UNCHANGED <<humanVars, homVars, polyVars,
            proxVars, trackVars>>
    \/ Pipeline_Return /\ UNCHANGED <<humanVars, homVars, polyVars,
            proxVars, trackVars>>
    \/ Pipeline_CallAgain /\ UNCHANGED <<humanVars, homVars, polyVars,
            proxVars, trackVars>>

Spec == Init /\ [][Next]_vars

====
